---- MODULE Spec2Model ----
(***************************************************************************)
(* Hexagon Clink toolkit: the penny-spiral builder, the backtracking       *)
(* arrangement solvers (general solver, n=20 solver, solver_13_3), the     *)
(* n=7 exhaustive two-arrangement check and the find_fourth dispatcher.    *)
(*                                                                         *)
(* Each program is a state machine of its own, with its own variables and  *)
(* its own specification; the variables of the programs a specification    *)
(* does not run stay at their idle values.                                 *)
(***************************************************************************)
EXTENDS Integers, Sequences, FiniteSets, TLC

VARIABLES
    \* buildSpiral (find_fourth/hex.go)
    spN, positions, spEdges, node,
    \* Solver (solver_20/solver.go, both programs of that file)
    s, found, solution, mu, wk, result, writes,
    \* solver_13_3
    fam, shape0, shape1, found13, resultChan, countChan, w13, main13, sol13, sent,
    \* the n=7 exhaustive check (prove_n13_needs_4_v2.m)
    g1, g2, p, foundSolution, checksPerformed,
    \* find_fourth
    allLines, samples, chanCaps, nextLine, work, workClosed, results, resultsClosed, stopFlag,
    fw, checkedCount, foundResult, done, ffMain, collected,
    \* solveSAT (find_fourth/main.go)
    satN, satAdj, satPairs, clauses, nextVar, pairIdx, status, model, arr3, satPc,
    \* canonicalize (canonicalize.go)
    cn, canonGroups, groupChan, groupChanClosed, fed, canonResults, canonResultsClosed, cw, allUnique, canonMain, outBin,
    \* refine_hash and wl_refine (fingerprint groups, WL groups)
    fpN, fpInput, fpNext, fpGroups, fpFile, wlNext, wlResults, fpPc,
    \* filter_maximal
    fmN, fmLines, fmRead, fmAllGraphs, fmI, maximal, fmOut, fmPc,
    \* graph6 round trip of filter_maximal
    g6N, g6Edges, g6Graph, g6Line, g6Back, g6Pc,
    \* generate_edges
    genN, targetEdges, genFrames, genOut, genTotal, genPc,
    \* polyiamond_enum (enumerate.go)
    minTri, maxTri, targetV, targetE, workers, nTri, polySize, current, polyNext, chunks, pending, allMatches, g6File, polyPc,
    \* candidate pipeline with shortg (generate, flushBatch, merge)
    plN, plBatchSize, shortgOk, plStack, currentBatch, batchFiles, plFinal, plPc,
    \* verify_penny: isPennyGraph (graph, restart, positions)
    pnN, pnG, pnAttempt, pnPos, pnResult, pnPc

\* src/find_fourth/hex.go 39-41: buildSpiral: n, positions, edges, node
spiralVars == <<spN, positions, spEdges, node>>
\* src/solver_20/solver.go 521-533: type Solver and the workers' stacks
solverVars == <<s, found, solution, mu, wk, result, writes>>
\* src/solver_k/solver_13_3.go 244-256: main: found, resultChan, shape0, shape1, wg
s13Vars    == <<fam, shape0, shape1, found13, resultChan, countChan, w13, main13, sol13, sent>>
\* src/mathematica/prove_n13_needs_4_v2.m 780-795: g1, g2, p, foundSolution, checksPerformed
n7Vars     == <<g1, g2, p, foundSolution, checksPerformed>>
\* src/find_fourth/main.go 91-199: main: allLines, work, results, stopFlag, checkedCount, foundResult, done
ffVars     == <<allLines, samples, chanCaps, nextLine, work, workClosed, results, resultsClosed,
                stopFlag, fw, checkedCount, foundResult, done, ffMain, collected>>
\* src/find_fourth/main.go 266-362: solveSAT: n, adjMatrix, uncoveredPairs, clauses, nextVar, status, model, arr3
satVars == <<satN, satAdj, satPairs, clauses, nextVar, pairIdx, status, model, arr3, satPc>>
\* src/canonicalize.go 141-172: main: groups, groupChan, results, workers, allUnique
canonVars == <<cn, canonGroups, groupChan, groupChanClosed, fed, canonResults, canonResultsClosed, cw, allUnique, canonMain, outBin>>
\* src/unnamed/part_009 109-213: state of refine_hash and wl_refine: groups, output file, allResults
fpVars == <<fpN, fpInput, fpNext, fpGroups, fpFile, wlNext, wlResults, fpPc>>
\* src/filter_maximal.go 155-240: main: n, input lines, allGraphs, maximal, output file
fmVars == <<fmN, fmLines, fmRead, fmAllGraphs, fmI, maximal, fmOut, fmPc>>
\* src/filter_maximal.go 102-153: the graph, its Graph mask, its graph6 line, the mask read back
g6Vars == <<g6N, g6Edges, g6Graph, g6Line, g6Back, g6Pc>>
\* src/penny_enum/generate_edges.go 160-193: main and generate: n, targetEdges, active calls, output file, total
genVars == <<genN, targetEdges, genFrames, genOut, genTotal, genPc>>
\* src/polyiamond_enum/enumerate.go 200-276: main and enumeratePolyiamonds: flags, nTri, size, current, next, chunks, allMatches, g6 file
polyVars == <<minTri, maxTri, targetV, targetE, workers, nTri, polySize, current, polyNext, chunks, pending, allMatches, g6File, polyPc>>
\* src/solver_20/solver.go 521-533: the state of all programs
plVars == <<plN, plBatchSize, shortgOk, plStack, currentBatch, batchFiles, plFinal, plPc>>
pnVars == <<pnN, pnG, pnAttempt, pnPos, pnResult, pnPc>>
vars       == <<spiralVars, solverVars, s13Vars, n7Vars, ffVars, satVars, canonVars, fpVars, fmVars, g6Vars, genVars, polyVars, plVars, pnVars>>

\* the variables of the programs other than the one that runs
\* src/find_fourth/hex.go 39-96: buildSpiral touches no state of the other programs
spiralRest == <<solverVars, s13Vars, n7Vars, ffVars, satVars, canonVars, fpVars, fmVars, g6Vars, genVars, polyVars, plVars, pnVars>>
\* src/solver_20/solver.go 442-783: the solver touches no state of the other programs
solverRest == <<spiralVars, s13Vars, n7Vars, ffVars, satVars, canonVars, fpVars, fmVars, g6Vars, genVars, polyVars, plVars, pnVars>>
\* src/solver_k/solver_13_3.go 228-309: solver_13_3 touches no state of the other programs
s13Rest == <<spiralVars, solverVars, n7Vars, ffVars, satVars, canonVars, fpVars, fmVars, g6Vars, genVars, polyVars, plVars, pnVars>>
\* src/mathematica/prove_n13_needs_4_v2.m 787-822: the n=7 check touches no state of the other programs
n7Rest == <<spiralVars, solverVars, s13Vars, ffVars, satVars, canonVars, fpVars, fmVars, g6Vars, genVars, polyVars, plVars, pnVars>>
\* src/find_fourth/main.go 33-264: find_fourth touches no state of the other programs
ffRest == <<spiralVars, solverVars, s13Vars, n7Vars, satVars, canonVars, fpVars, fmVars, g6Vars, genVars, polyVars, plVars, pnVars>>
\* src/find_fourth/main.go 266-362: solveSAT touches no state of the other programs
satRest == <<spiralVars, solverVars, s13Vars, n7Vars, ffVars, canonVars, fpVars, fmVars, g6Vars, genVars, polyVars, plVars, pnVars>>
\* src/canonicalize.go 80-246: canonicalize touches no state of the other programs
canonRest == <<spiralVars, solverVars, s13Vars, n7Vars, ffVars, satVars, fpVars, fmVars, g6Vars, genVars, polyVars, plVars, pnVars>>
\* src/unnamed/part_009 109-213: state of the other programs
fpRest == <<spiralVars, solverVars, s13Vars, n7Vars, ffVars, satVars, canonVars, fmVars, g6Vars, genVars, polyVars, plVars, pnVars>>
\* src/filter_maximal.go 155-240: filter_maximal touches no state of the other programs
fmRest == <<spiralVars, solverVars, s13Vars, n7Vars, ffVars, satVars, canonVars, fpVars, g6Vars, genVars, polyVars, plVars, pnVars>>
\* src/filter_maximal.go 102-153: the round trip touches no state of the programs
g6Rest == <<spiralVars, solverVars, s13Vars, n7Vars, ffVars, satVars, canonVars, fpVars, fmVars, genVars, polyVars, plVars, pnVars>>
\* src/penny_enum/generate_edges.go 118-204: generate_edges touches no state of the other programs
genRest == <<spiralVars, solverVars, s13Vars, n7Vars, ffVars, satVars, canonVars, fpVars, fmVars, g6Vars, polyVars, plVars, pnVars>>
\* src/polyiamond_enum/enumerate.go 567-640: polyiamond_enum touches no state of the other programs
polyRest == <<spiralVars, solverVars, s13Vars, n7Vars, ffVars, satVars, canonVars, fpVars, fmVars, g6Vars, genVars, plVars, pnVars>>
plRest == <<spiralVars, solverVars, s13Vars, n7Vars, ffVars, satVars, canonVars, fpVars, fmVars, g6Vars, genVars, polyVars, pnVars>>
pnRest == <<spiralVars, solverVars, s13Vars, n7Vars, ffVars, satVars, canonVars, fpVars, fmVars, g6Vars, genVars, polyVars, plVars>>

(***************************************************************************)
(* Bounds of the model.                                                    *)
(***************************************************************************)
MaxSpiralN == 20

(***************************************************************************)
(* Small helpers.                                                          *)
(***************************************************************************)
\* src/find_fourth/hex.go 22-24: math.Abs in vecClose
Abs(x) == IF x < 0 THEN -x ELSE x

\* src/solver_20/solver.go 729-735: range over s.edges (the elements of a slice)
Range(f) == {f[i] : i \in DOMAIN f}

\* The arrangement with item i in slot i; slots and items are 0..n-1, and an
\* arrangement is the sequence of the items of slots 0, 1, ..., n-1.
\* src/solver_20/solver.go 720-724: Solve: arr0[i] = i
Identity(n) == [i \in 1..n |-> i - 1]

\* src/solver_20/solver.go 651-708: enumerate: used[item] keeps the items of arr distinct
IsPermutation(arr, n) ==
    /\ DOMAIN arr = 1..n
    /\ Range(arr) = 0..(n - 1)

\* pairTable[a][b] of the solvers: the dense index of the item pair {a, b}.
\* src/solver_20/solver.go 558-568: NewSolver: pairTable / pairIndex
pairIndex(n, a, b) ==
    IF a < b THEN a * n - (a * (a + 1)) \div 2 + (b - a - 1)
    ELSE IF b < a THEN b * n - (b * (b + 1)) \div 2 + (a - b - 1)
    ELSE 0

\* src/solver_k/solver_13_3.go 67-72: init: allPairs
AllPairs(n) ==
    {pairIndex(n, q[1], q[2]) : q \in {x \in (0..(n - 1)) \X (0..(n - 1)) : x[1] < x[2]}}

\* The pair-set an arrangement induces on a graph: one pair per edge.
\* src/solver_k/solver_13_3.go 75-84: buildPairsTable (one pair per edge)
InducedPairs(n, edges, arr) ==
    {pairIndex(n, arr[e[1] + 1], arr[e[2] + 1]) : e \in Range(edges)}

RECURSIVE CoveredBy(_, _, _)
\* src/solver_20/solver.go 727-734: Solve: covered from the edges of an arrangement
CoveredBy(n, edges, arrs) ==
    IF arrs = <<>> THEN {}
    ELSE InducedPairs(n, edges, Head(arrs)) \cup CoveredBy(n, edges, Tail(arrs))

(***************************************************************************)
(* buildSpiral.  Coordinates are in hundredths: every coordinate the code  *)
(* computes is a sum of entries of hexDirs, which are multiples of 0.01,   *)
(* and the tolerance 0.1 is 10.                                            *)
(***************************************************************************)
hexDirs == << <<150, 0>>, <<75, 130>>, <<-75, 130>>,
              <<-150, 0>>, <<-75, -130>>, <<75, -130>> >>

\* src/find_fourth/hex.go 22-24: vecClose
vecClose(a, b) == Abs(a[1] - b[1]) < 10 /\ Abs(a[2] - b[2]) < 10

\* src/find_fourth/hex.go 26-28: vecAdd
vecAdd(a, d) == <<a[1] + d[1], a[2] + d[2]>>

\* positions is the sequence of the nodes placed so far (node i at index i+1).
\* src/find_fourth/hex.go 30-37: positionOccupied
positionOccupied(pos, placed) == \E i \in DOMAIN placed : vecClose(pos, placed[i])

\* true when pos is a hex neighbour of the placed node at index i
\* src/find_fourth/hex.go 66-72: buildSpiral: loop over dd (hex neighbour test)
Touches(pos, placed, i) ==
    \E dd \in 1..6 : vecClose(pos, vecAdd(placed[i], hexDirs[dd]))

\* src/find_fourth/hex.go 64-73: buildSpiral: contacts
Contacts(cand, placed) == Cardinality({i \in DOMAIN placed : Touches(cand, placed, i)})

\* src/find_fourth/hex.go 75-75: buildSpiral: dist
Dist(cand) == cand[1] * cand[1] + cand[2] * cand[2]

\* The test that replaces the best candidate found so far.
ImprovesFarthest(contacts, dist, bestContacts, bestDist) ==
    bestContacts < 0 \/ dist > bestDist

\* The test without its tie-break on the distance from the centre.
ImprovesContactsOnly(contacts, dist, bestContacts, bestDist) ==
    contacts > bestContacts

Improves(contacts, dist, bestContacts, bestDist) ==
    contacts > bestContacts \/ (contacts = bestContacts /\ dist < bestDist)

\* The scan over d = 0..5 of one node; best is [pos, contacts, dist], at first
\* the zero position with bestContacts = -1 (bestDist = 1e9 is larger than
\* every distance, and so is the 2000000000 used here).
RECURSIVE ScanDirs(_, _, _)
\* src/find_fourth/hex.go 58-81: buildSpiral: loop over d
ScanDirs(d, placed, best) ==
    IF d > 6 THEN best
    ELSE LET cand == vecAdd(placed[Len(placed)], hexDirs[d])
             contacts == Contacts(cand, placed)
             dist == Dist(cand)
         IN  IF positionOccupied(cand, placed) THEN ScanDirs(d + 1, placed, best)
             ELSE IF Improves(contacts, dist, best.contacts, best.dist)
                  THEN ScanDirs(d + 1, placed,
                                [pos |-> cand, contacts |-> contacts, dist |-> dist])
                  ELSE ScanDirs(d + 1, placed, best)

BestPos(placed) ==
    ScanDirs(1, placed, [pos |-> <<0, 0>>, contacts |-> -1, dist |-> 2000000000]).pos

\* The edges the new node brings: one per already placed node it touches, in
\* the order of the placed nodes.
RECURSIVE NewEdges(_, _, _)
\* src/find_fourth/hex.go 85-93: buildSpiral: edges of the new node
NewEdges(pos, placed, i) ==
    IF i > Len(placed) THEN <<>>
    ELSE (IF Touches(pos, placed, i) THEN << <<i - 1, Len(placed)>> >> ELSE <<>>)
         \o NewEdges(pos, placed, i + 1)

\* buildSpiral as a function of n (NewSolver and find_fourth's main call it
\* before any worker starts).
RECURSIVE SpiralFrom(_, _, _)
\* src/find_fourth/hex.go 52-94: buildSpiral: loop over node
SpiralFrom(n, placed, edges) ==
    IF Len(placed) >= n THEN edges
    ELSE LET bp == BestPos(placed)
         IN  SpiralFrom(n, Append(placed, bp), edges \o NewEdges(bp, placed, 1))

buildSpiral(n) == IF n < 2 THEN <<>> ELSE SpiralFrom(n, << <<0, 0>> >>, <<>>)

----------------------------------------------------------------------------
(***************************************************************************)
(* buildSpiral as a state machine: one step per iteration of the loop over *)
(* node.  node = spN means the function has returned spEdges.              *)
(***************************************************************************)
\* src/find_fourth/hex.go 39-41: buildSpiral not called
SpiralIdle ==
    /\ spN = 0 /\ positions = <<>> /\ spEdges = <<>> /\ node = 0

SpiralInit ==
    /\ spN \in 0..MaxSpiralN
    /\ positions = IF spN < 1 THEN <<>> ELSE << <<0, 0>> >>
    /\ spEdges = <<>>
    /\ node = IF spN < 2 THEN spN ELSE 1

SpiralPlace ==
    /\ node < spN
    /\ LET bp == BestPos(positions)
       IN  /\ positions' = Append(positions, bp)
           /\ spEdges' = spEdges \o NewEdges(bp, positions, 1)
    /\ node' = node + 1
    /\ UNCHANGED spN
    /\ UNCHANGED spiralRest

\* src/find_fourth/hex.go 52-95: buildSpiral: loop
SpiralNext == SpiralPlace

----------------------------------------------------------------------------
(***************************************************************************)
(* The backtracking Solver of solver_20/solver.go.  The file holds two     *)
(* programs with the same structure: the general solver (any n, k) and the *)
(* n=20 solver (N = 20, K = 5, a special first slot at the last level and  *)
(* optional overlap limits).  s.variant tells them apart.  The n=20 solver *)
(* is run here on smaller spirals whose last slot has degree 2, as slot 19 *)
(* has on the spiral of 20: N and K are s.n and s.k, specialSlot is n - 1. *)
(***************************************************************************)
specialSlotDegree == 2

\* src/solver_20/solver.go 162-162: specialSlot
specialSlot(n) == n - 1

\* slotAdj of NewSolver.  General solver: the neighbours below the slot.
\* n=20 solver: all neighbours.
\* src/solver_20/solver.go 538-547: NewSolver: slotAdj (general; n=20 solver lines 102-106)
slotAdjOf(variant, n, edges) ==
    [sl \in 1..n |->
        IF variant = "general"
        THEN {e[2] : e \in {x \in Range(edges) : x[1] = sl - 1 /\ x[2] < sl - 1}} \cup
             {e[1] : e \in {x \in Range(edges) : x[2] = sl - 1 /\ x[1] < sl - 1}}
        ELSE {e[2] : e \in {x \in Range(edges) : x[1] = sl - 1}} \cup
             {e[1] : e \in {x \in Range(edges) : x[2] = sl - 1}}]

\* remEdges[slot], slot = 0..n: the edges with an end at slot or above.
remEdgesNone(n, edges) == [sl \in 1..(n + 1) |-> 0]

remEdgesOf(n, edges) ==
    [sl \in 1..(n + 1) |->
        Cardinality({i \in DOMAIN edges : edges[i][1] >= sl - 1 \/ edges[i][2] >= sl - 1})]

\* NewSolver (and SetMaxOverlap, for the n=20 solver started with -max-overlap).
NewSolver(variant, n, k, numWorkers, limits) ==
    LET edges == buildSpiral(n)
    IN  [variant |-> variant, n |-> n, k |-> k, numWorkers |-> numWorkers,
         numPairs |-> (n * (n - 1)) \div 2,
         numEdges |-> Len(edges),
         edges |-> edges,
         slotAdj |-> slotAdjOf(variant, n, edges),
         remEdges |-> remEdgesOf(n, edges),
         maxOverlapArr |-> limits]

\* covered and coveredCount as Solve computes them from arr0 = identity.
Covered0AllPairs(sv) == AllPairs(sv.n)

Covered0(sv) == {pairIndex(sv.n, e[1], e[2]) : e \in Range(sv.edges)}

\* countNeededPartners of the n=20 solver
countNeededPartners(sv, item, coveredSet) ==
    Cardinality({other \in 0..(sv.n - 1) :
                    other # item /\ pairIndex(sv.n, item, other) \notin coveredSet})

\* slotOrder of the n=20 solver at depth (0-based); the general solver fills
\* the slots in their order.
\* src/solver_20/solver.go 204-219: solve: slotOrder (n=20 solver)
slotAt(sv, level, depth) ==
    IF sv.variant = "n20" /\ level = sv.k - 2
    THEN (IF depth = 0 THEN specialSlot(sv.n) ELSE depth - 1)
    ELSE depth

\* maxOverlap of one solve call
maxOverlapZero(sv, level, missing) == 0

maxOverlapOf(sv, level, missing) ==
    LET remaining == sv.k - level - 1
    IN  IF sv.variant = "n20" /\ level < Len(sv.maxOverlapArr)
        THEN sv.maxOverlapArr[level + 1]
        ELSE sv.numEdges - ((missing + remaining - 1) \div remaining)

\* All orderings of the items of S, as sequences.
RECURSIVE PermSeqs(_)
\* src/solver_20/solver.go 608-612: solve: the orders rng.Shuffle can leave
PermSeqs(S) ==
    IF S = {} THEN {<<>>}
    ELSE UNION {{<<x>> \o q : q \in PermSeqs(S \ {x})} : x \in S}

\* The orders rng.Shuffle may leave in order: every order of the items for
\* n <= MaxShuffleN, and the identity and its reverse above that.
MaxShuffleN == 2

\* src/solver_20/solver.go 608-612: solve: order after rng.Shuffle
Orders(n) ==
    IF n <= MaxShuffleN THEN PermSeqs(0..(n - 1))
    ELSE {[i \in 1..n |-> i - 1], [i \in 1..n |-> n - i]}

\* ---- the frames of one worker -------------------------------------------
\* A worker is [pc, frames, wi].  frames holds one record per active solve
\* call (level = its index - 1) with the locals of solve; its field calls
\* holds one record per active enumerate call (depth = its index - 1).
\* The field entry of a call is no variable of the code: it keeps what used,
\* usedItems, filledSlots, coveredSet and arr were when the call was entered.
\* src/solver_20/solver.go 587-606: solve: the locals of the innermost solve call
TopFrame(wr) == wr.frames[Len(wr.frames)]

\* src/solver_20/solver.go 615-615: enumerate: the arguments of the innermost call
TopCall(wr) == TopFrame(wr).calls[Len(TopFrame(wr).calls)]

\* src/solver_20/solver.go 587-606: solve: update of its locals
SetTopFrame(wr, f) == [wr EXCEPT !.frames[Len(wr.frames)] = f]

\* src/solver_20/solver.go 615-615: enumerate: update of the innermost call
SetTopCall(f, c) == [f EXCEPT !.calls[Len(f.calls)] = c]

\* newParentArrs at a complete arrangement: append(parentArrs, arrCopy)
\* src/solver_20/solver.go 627-632: enumerate: arrCopy, newParentArrs
newParentArrs(f) == Append(f.parentArrs, f.arr)

\* The arguments of the solve call a worker is about to enter.
\* src/solver_20/solver.go 646-646: s.solve(level+1, coveredCopy, localCovered, newParentArrs, rng); Solve line 745
SolveArgs(sv, wr) ==
    IF wr.frames = <<>>
    THEN [covered |-> Covered0(sv), coveredCount |-> Cardinality(Covered0(sv)),
          parentArrs |-> <<>>]
    ELSE [covered |-> TopFrame(wr).coveredSet,
          coveredCount |-> TopCall(wr).localCovered,
          parentArrs |-> newParentArrs(TopFrame(wr))]

\* A solve call returns: to the goroutine (the worker is done) or into the
\* enumerate call of the level below, which returns in turn.
\* src/solver_20/solver.go 716-717: solve returns
SolveReturns(wr) ==
    IF wr.frames = <<>> THEN [wr EXCEPT !.pc = "done"] ELSE [wr EXCEPT !.pc = "ret"]

\* The candidates with the special slot closed to the items that need exactly
\* specialSlotDegree partners.
CandidatesBelowDegree(sv, level, depth, f) ==
    IF sv.variant = "n20"
    THEN LET ok(item) ==
                 /\ item \notin f.used
                 /\ (level = sv.k - 2 /\ depth = 0) =>
                        countNeededPartners(sv, item, f.coveredSet) < specialSlotDegree
         IN  SelectSeq(f.order, ok)
    ELSE f.order

\* The candidates of one enumerate call.
Candidates(sv, level, depth, f) ==
    IF sv.variant = "n20"
    THEN LET ok(item) ==
                 /\ item \notin f.used
                 /\ (level = sv.k - 2 /\ depth = 0) =>
                        countNeededPartners(sv, item, f.coveredSet) <= specialSlotDegree
         IN  SelectSeq(f.order, ok)
    ELSE f.order

\* The filled neighbours of slot whose pair with item is already covered
\* (newOverlap counts them) and the pairs the others newly cover (newPairs).
\* src/solver_20/solver.go 289-292: enumerate: adjacent slots, skipping unfilled ones (general: line 661)
FilledAdj(sv, f, slot) ==
    {a \in sv.slotAdj[slot + 1] : sv.variant = "n20" => f.arr[a + 1] # -1}

\* src/solver_20/solver.go 659-670: enumerate: newOverlap
newOverlapOf(sv, f, slot, item) ==
    Cardinality({a \in FilledAdj(sv, f, slot) :
                    pairIndex(sv.n, item, f.arr[a + 1]) \in f.coveredSet})

\* src/solver_20/solver.go 659-670: enumerate: newPairs
newPairsOf(sv, f, slot, item) ==
    {pairIndex(sv.n, item, f.arr[a + 1]) : a \in FilledAdj(sv, f, slot)} \ f.coveredSet

\* The doomed-pair check of the last level: an already placed item whose pair
\* with item is neither covered nor among newPairs.
\* src/solver_20/solver.go 677-677: enumerate: usedItems (n=20 solver: filledSlots, line 310)
PlacedItems(sv, f) ==
    IF sv.variant = "n20" THEN {f.arr[sl + 1] : sl \in Range(f.filledSlots)}
    ELSE Range(f.usedItems)

Doomed(sv, f, item, newPairs) ==
    \E other \in PlacedItems(sv, f) :
        /\ pairIndex(sv.n, item, other) \notin f.coveredSet
        /\ pairIndex(sv.n, item, other) \notin newPairs

\* ---- Solve and its workers ------------------------------------------------
\* src/solver_20/solver.go 754-754: main before NewSolver
SolverIdle ==
    /\ s = [variant |-> "none"] /\ found = 0 /\ solution = <<>> /\ mu = 0
    /\ wk = <<>> /\ result = "idle" /\ writes = <<>>

\* Solve up to the launch of the workers: arr0 is stored, and the general
\* solver answers k = 1 at once.
SolveStart ==
    /\ result = "init"
    /\ solution' = [solution EXCEPT ![1] = Identity(s.n)]
    /\ writes' = [writes EXCEPT ![1] = Append(@, 0)]
    /\ result' = IF s.variant = "general" /\ s.k = 1
                 THEN (IF Cardinality(Covered0(s)) = s.numPairs THEN "true" ELSE "false")
                 ELSE "wait"
    /\ UNCHANGED <<s, found, mu, wk>>
    /\ UNCHANGED solverRest

\* wg.Wait() is over: Solve returns the found flag.
SolveReturnNoWait ==
    /\ result = "wait"
    /\ result' = IF found # 0 THEN "true" ELSE "false"
    /\ UNCHANGED <<s, found, solution, mu, wk, writes>>
    /\ UNCHANGED solverRest

SolveReturn ==
    /\ result = "wait"
    /\ \A w \in DOMAIN wk : wk[w].pc = "done"
    /\ result' = IF found # 0 THEN "true" ELSE "false"
    /\ UNCHANGED <<s, found, solution, mu, wk, writes>>
    /\ UNCHANGED solverRest

\* Entry of solve(level, ...): the found check, the counting bound, maxOverlap,
\* the fresh locals and the shuffled order.
SolveEnter(w) ==
    /\ result = "wait"
    /\ wk[w].pc = "solve"
    /\ LET wr == wk[w]
           level == Len(wr.frames)
           args == SolveArgs(s, wr)
           remaining == s.k - level - 1
           missing == s.numPairs - args.coveredCount
       IN  IF found # 0 \/ missing > remaining * s.numEdges
           THEN wk' = [wk EXCEPT ![w] = SolveReturns(wr)]
           ELSE \E order \in Orders(s.n) :
                  wk' = [wk EXCEPT ![w] =
                     [wr EXCEPT !.pc = "enum",
                                !.frames = Append(wr.frames,
                       [maxOverlap |-> maxOverlapOf(s, level, missing),
                        order |-> order,
                        arr |-> [i \in 1..s.n |-> IF s.variant = "n20" THEN -1 ELSE 0],
                        used |-> {},
                        usedItems |-> <<>>,
                        filledSlots |-> <<>>,
                        coveredSet |-> args.covered,
                        coveredCount |-> args.coveredCount,
                        parentArrs |-> args.parentArrs,
                        calls |-> << [overlap |-> 0, localCovered |-> args.coveredCount,
                                      cands |-> <<>>, idx |-> 0, newPairs |-> {},
                                      entry |-> [used |-> {}, usedItems |-> <<>>,
                                                 filledSlots |-> <<>>,
                                                 coveredSet |-> args.covered,
                                                 arr |-> [i \in 1..s.n |->
                                                    IF s.variant = "n20" THEN -1 ELSE 0]]] >>])]]
    /\ UNCHANGED <<s, found, solution, mu, result, writes>>
    /\ UNCHANGED solverRest

\* Entry of enumerate: the found check, the remEdges bound of the general
\* solver, the complete arrangement, or the start of the loop over the items.
EnumEnter(w) ==
    /\ result = "wait"
    /\ wk[w].pc = "enum"
    /\ LET wr == wk[w]
           f == TopFrame(wr)
           c == TopCall(wr)
           level == Len(wr.frames) - 1
           depth == Len(f.calls) - 1
           remaining == s.k - level - 1
           missingNow == s.numPairs - c.localCovered
           maxPossible == s.remEdges[depth + 1] + (remaining - 1) * s.numEdges
       IN  wk' = [wk EXCEPT ![w] =
             IF found # 0 THEN [wr EXCEPT !.pc = "ret"]
             ELSE IF s.variant = "general" /\ missingNow > maxPossible
                  THEN [wr EXCEPT !.pc = "ret"]
             ELSE IF depth = s.n
                  THEN (IF level = s.k - 2
                        THEN (IF c.localCovered = s.numPairs
                              THEN [wr EXCEPT !.pc = "lock"]
                              ELSE [wr EXCEPT !.pc = "ret"])
                        ELSE [wr EXCEPT !.pc = "solve"])
             ELSE [SetTopFrame(wr, SetTopCall(f,
                      [c EXCEPT !.cands = Candidates(s, level, depth, f), !.idx = 1]))
                   EXCEPT !.pc = "loop"]]
    /\ UNCHANGED <<s, found, solution, mu, result, writes>>
    /\ UNCHANGED solverRest

\* One iteration of the loop over the items of a slot (or its end).
TryItem(w) ==
    /\ result = "wait"
    /\ wk[w].pc = "loop"
    /\ LET wr == wk[w]
           f == TopFrame(wr)
           c == TopCall(wr)
           level == Len(wr.frames) - 1
           depth == Len(f.calls) - 1
           remaining == s.k - level - 1
           slot == slotAt(s, level, depth)
           item == c.cands[c.idx]
           newOverlap == newOverlapOf(s, f, slot, item)
           newPairs == newPairsOf(s, f, slot, item)
           skip == SetTopFrame(wr, SetTopCall(f, [c EXCEPT !.idx = c.idx + 1]))
       IN  wk' = [wk EXCEPT ![w] =
             IF c.idx > Len(c.cands) \/ found # 0 THEN [wr EXCEPT !.pc = "ret"]
             ELSE IF item \in f.used THEN skip
             ELSE IF c.overlap + newOverlap > f.maxOverlap THEN skip
             ELSE IF remaining = 1 /\ Doomed(s, f, item, newPairs) THEN skip
             ELSE [SetTopFrame(wr,
                     [f EXCEPT !.arr[slot + 1] = item,
                               !.used = @ \cup {item},
                               !.usedItems = Append(@, item),
                               !.filledSlots = Append(@, slot),
                               !.coveredSet = @ \cup newPairs,
                               !.calls = Append(
                                   SetTopCall(f, [c EXCEPT !.newPairs = newPairs]).calls,
                                   [overlap |-> c.overlap + newOverlap,
                                    localCovered |-> c.localCovered + Cardinality(newPairs),
                                    cands |-> <<>>, idx |-> 0, newPairs |-> {},
                                    entry |-> [used |-> f.used \cup {item},
                                               usedItems |-> Append(f.usedItems, item),
                                               filledSlots |-> Append(f.filledSlots, slot),
                                               coveredSet |-> f.coveredSet \cup newPairs,
                                               arr |-> [f.arr EXCEPT ![slot + 1] = item]]])])
                   EXCEPT !.pc = "enum"]]
    /\ UNCHANGED <<s, found, solution, mu, result, writes>>
    /\ UNCHANGED solverRest

\* The return without the loop that clears the newPairs in coveredSet.
EnumReturnKeepsCovered(w) ==
    /\ result = "wait"
    /\ wk[w].pc = "ret"
    /\ LET wr == wk[w]
           f == TopFrame(wr)
           level == Len(wr.frames) - 1
           depth == Len(f.calls) - 2
           slot == slotAt(s, level, depth)
       IN  wk' = [wk EXCEPT ![w] =
             IF Len(f.calls) = 1
             THEN SolveReturns([wr EXCEPT !.frames = SubSeq(wr.frames, 1, Len(wr.frames) - 1)])
             ELSE LET c == f.calls[Len(f.calls) - 1]
                      item == c.cands[c.idx]
                  IN  [SetTopFrame(wr,
                         [f EXCEPT !.arr[slot + 1] = IF s.variant = "n20" THEN -1 ELSE @,
                                   !.used = @ \ {item},
                                   !.usedItems = SubSeq(@, 1, Len(@) - 1),
                                   !.filledSlots = SubSeq(@, 1, Len(@) - 1),
                                   !.calls = Append(SubSeq(f.calls, 1, Len(f.calls) - 2),
                                                    [c EXCEPT !.idx = c.idx + 1,
                                                              !.newPairs = {}])])
                       EXCEPT !.pc = "loop"]]
    /\ UNCHANGED <<s, found, solution, mu, result, writes>>
    /\ UNCHANGED solverRest

\* An enumerate call returns: into the loop iteration that made it, which
\* takes its item back, or out of solve when it was enumerate(0, ...).
EnumReturn(w) ==
    /\ result = "wait"
    /\ wk[w].pc = "ret"
    /\ LET wr == wk[w]
           f == TopFrame(wr)
           level == Len(wr.frames) - 1
           depth == Len(f.calls) - 2
           slot == slotAt(s, level, depth)
       IN  wk' = [wk EXCEPT ![w] =
             IF Len(f.calls) = 1
             THEN SolveReturns([wr EXCEPT !.frames = SubSeq(wr.frames, 1, Len(wr.frames) - 1)])
             ELSE LET c == f.calls[Len(f.calls) - 1]
                      item == c.cands[c.idx]
                  IN  [SetTopFrame(wr,
                         [f EXCEPT !.arr[slot + 1] = IF s.variant = "n20" THEN -1 ELSE @,
                                   !.used = @ \ {item},
                                   !.usedItems = SubSeq(@, 1, Len(@) - 1),
                                   !.filledSlots = SubSeq(@, 1, Len(@) - 1),
                                   !.coveredSet = @ \ c.newPairs,
                                   !.calls = Append(SubSeq(f.calls, 1, Len(f.calls) - 2),
                                                    [c EXCEPT !.idx = c.idx + 1,
                                                              !.newPairs = {}])])
                       EXCEPT !.pc = "loop"]]
    /\ UNCHANGED <<s, found, solution, mu, result, writes>>
    /\ UNCHANGED solverRest

\* s.mu.Lock() at a complete cover
Lock(w) ==
    /\ result = "wait"
    /\ wk[w].pc = "lock"
    /\ mu = 0
    /\ mu' = w
    /\ wk' = [wk EXCEPT ![w].pc = "crit"]
    /\ UNCHANGED <<s, found, solution, result, writes>>
    /\ UNCHANGED solverRest

\* the found check under the mutex
CritCheckNoRecheck(w) ==
    /\ wk[w].pc = "crit"
    /\ wk' = [wk EXCEPT ![w].pc = "write", ![w].wi = 0]
    /\ UNCHANGED <<s, found, solution, mu, result, writes>>
    /\ UNCHANGED solverRest

CritCheck(w) ==
    /\ wk[w].pc = "crit"
    /\ wk' = [wk EXCEPT ![w].pc = IF found = 0 THEN "write" ELSE "unlock", ![w].wi = 0]
    /\ UNCHANGED <<s, found, solution, mu, result, writes>>
    /\ UNCHANGED solverRest

\* s.solution[i+1] = perm, one entry of newParentArrs per step
WriteSolution(w) ==
    /\ wk[w].pc = "write"
    /\ LET i == wk[w].wi
           arrs == newParentArrs(TopFrame(wk[w]))
       IN  /\ i < Len(arrs)
           /\ solution' = [solution EXCEPT ![i + 2] = arrs[i + 1]]
           /\ writes' = [writes EXCEPT ![i + 2] = Append(@, w)]
           /\ wk' = [wk EXCEPT ![w].wi = i + 1]
    /\ UNCHANGED <<s, found, mu, result>>
    /\ UNCHANGED solverRest

\* atomic.StoreInt32(&s.found, 1)
StoreFound(w) ==
    /\ wk[w].pc = "write"
    /\ wk[w].wi >= Len(newParentArrs(TopFrame(wk[w])))
    /\ found' = 1
    /\ wk' = [wk EXCEPT ![w].pc = "unlock"]
    /\ UNCHANGED <<s, solution, mu, result, writes>>
    /\ UNCHANGED solverRest

\* s.mu.Unlock(); enumerate returns
Unlock(w) ==
    /\ wk[w].pc = "unlock"
    /\ mu' = 0
    /\ wk' = [wk EXCEPT ![w].pc = "ret"]
    /\ UNCHANGED <<s, found, solution, result, writes>>
    /\ UNCHANGED solverRest

\* ---- the instances the Solver is run on ------------------------------------
MaxN == 7
MaxK == 3
MaxWorkers == 2
\* more than one worker is run for n <= MaxConcN
MaxConcN == 4
MaxN20 == 6

\* the -max-overlap limits the n=20 solver is started with (<<>>: none)
\* src/solver_20/solver.go 403-420: main: -max-overlap (n=20 solver)
Limits == {<<>>, <<0>>, <<1, 0>>, <<9, 9>>}

\* src/solver_20/solver.go 109-112: NewSolver: slotDeg of the special slot
LastSlotDegree(n) ==
    Cardinality({i \in DOMAIN buildSpiral(n) :
                    buildSpiral(n)[i][1] = n - 1 \/ buildSpiral(n)[i][2] = n - 1})

\* src/solver_20/solver.go 754-783: main: n, k, workers (general); n=20 solver main 401-440
Instances ==
    {[variant |-> "general", n |-> n, k |-> k, numWorkers |-> nw, limits |-> <<>>] :
        n \in 1..MaxN, k \in 1..MaxK, nw \in 1..MaxWorkers} \cup
    {[variant |-> "n20", n |-> n, k |-> k, numWorkers |-> nw, limits |-> lim] :
        n \in {x \in 3..MaxN20 : LastSlotDegree(x) = specialSlotDegree},
        k \in 2..MaxK, nw \in 1..MaxWorkers, lim \in Limits}

SolverInit ==
    /\ \E inst \in {i \in Instances : i.numWorkers = 1 \/ i.n <= MaxConcN} :
          s = NewSolver(inst.variant, inst.n, inst.k, inst.numWorkers, inst.limits)
    /\ found = 0
    /\ solution = [i \in 1..s.k |-> <<>>]
    /\ mu = 0
    /\ wk = [w \in 1..s.numWorkers |-> [pc |-> "solve", frames |-> <<>>, wi |-> 0]]
    /\ result = "init"
    /\ writes = [i \in 1..s.k |-> <<>>]

\* src/solver_20/solver.go 587-752: solve, enumerate, Solve
SolverNext ==
    \/ SolveStart
    \/ SolveReturn
    \/ \E w \in DOMAIN wk : SolveEnter(w)
    \/ \E w \in DOMAIN wk : EnumEnter(w)
    \/ \E w \in DOMAIN wk : TryItem(w)
    \/ \E w \in DOMAIN wk : EnumReturn(w)
    \/ \E w \in DOMAIN wk : Lock(w)
    \/ \E w \in DOMAIN wk : CritCheck(w)
    \/ \E w \in DOMAIN wk : WriteSolution(w)
    \/ \E w \in DOMAIN wk : StoreFound(w)
    \/ \E w \in DOMAIN wk : Unlock(w)

----------------------------------------------------------------------------
(***************************************************************************)
(* solver_13_3.  The program is fixed to numItems = 13, numEdges = 26 and  *)
(* its four graphs; it is run here on families of NumShapes graphs on 4    *)
(* and on 6 items that keep its arithmetic, 3 * numEdges = C(numItems, 2). *)
(* fam is [n, graphs]: numItems and allGraphs.                             *)
(*                                                                         *)
(* A worker's search reads and writes nothing shared but the found flag,   *)
(* which it polls at every call of search: its run up to the first         *)
(* success of searchArr2 is one step (taken while the flag is clear), its  *)
(* CompareAndSwap and send another, and a worker that sees the flag set    *)
(* returns.                                                                *)
(***************************************************************************)
NumShapes == 2

GraphM  == << <<0, 1>>, <<2, 3>> >>
GraphP  == << <<0, 1>>, <<1, 2>> >>
GraphC5 == << <<0, 1>>, <<1, 2>>, <<2, 3>>, <<3, 4>>, <<0, 4>> >>
GraphP6 == << <<0, 1>>, <<1, 2>>, <<2, 3>>, <<3, 4>>, <<4, 5>> >>
GraphS  == << <<0, 1>>, <<0, 2>>, <<0, 3>>, <<0, 4>>, <<0, 5>> >>

\* src/solver_k/solver_13_3.go 12-48: allGraphs, numItems, numEdges
Families ==
    {[n |-> 4, graphs |-> gs] : gs \in [1..NumShapes -> {GraphM, GraphP}]} \cup
    {[n |-> 6, graphs |-> gs] : gs \in [1..NumShapes -> {GraphC5, GraphP6, GraphS}]}

\* allNeighbors[shape][pos]
\* src/solver_k/solver_13_3.go 55-65: init: allNeighbors
neighbors(f, shape, pos) ==
    {e[2] : e \in {x \in Range(f.graphs[shape + 1]) : x[1] = pos}} \cup
    {e[1] : e \in {x \in Range(f.graphs[shape + 1]) : x[2] = pos}}

\* buildPairsTable: the table is symmetric, and is kept as the set of its pairs.
buildPairsTable(f, shapeIdx, arr) == InducedPairs(f.n, f.graphs[shapeIdx + 1], arr)

\* search of searchArr2 at pos = Len(arr2), and its loop over the items from
\* item on: [success, arr2] of the first complete arr2 with
\* pairsCovered = neededCount, in the order the code meets them.
RECURSIVE search2(_, _, _, _, _, _), items2(_, _, _, _, _, _, _)
search2(f, shape2, needed, neededCount, arr2, pairsCovered) ==
    IF Len(arr2) = f.n
    THEN [success |-> pairsCovered = neededCount, arr2 |-> arr2]
    ELSE items2(f, shape2, needed, neededCount, arr2, pairsCovered, 0)

\* src/solver_k/solver_13_3.go 114-145: searchArr2: search, loop over item
items2(f, shape2, needed, neededCount, arr2, pairsCovered, item) ==
    IF item >= f.n THEN [success |-> FALSE, arr2 |-> <<>>]
    ELSE IF item \in Range(arr2)
         THEN items2(f, shape2, needed, neededCount, arr2, pairsCovered, item + 1)
         ELSE LET pos == Len(arr2)
                  below == {q \in neighbors(f, shape2, pos) : q < pos}
                  isWaste == \E q \in below : pairIndex(f.n, item, arr2[q + 1]) \notin needed
                  r == search2(f, shape2, needed, neededCount, Append(arr2, item),
                               pairsCovered + Cardinality(below))
              IN  IF ~isWaste /\ r.success THEN r
                  ELSE items2(f, shape2, needed, neededCount, arr2, pairsCovered, item + 1)

searchArr2(f, shape2, needed, neededCount) ==
    search2(f, shape2, needed, neededCount, <<>>, 0)

\* The loop over shape2 at a complete arr1.
FirstShape2FromNext(sh1) == sh1 + 1

FirstShape2(sh1) == sh1

RECURSIVE tryShapes2(_, _, _, _, _, _)
tryShapes2(f, sh0, sh1, arr1, needed, shape2) ==
    IF shape2 >= NumShapes THEN [ok |-> FALSE]
    ELSE LET r == searchArr2(f, shape2, needed, Cardinality(needed))
         IN  IF r.success
             THEN [ok |-> TRUE, shape0 |-> sh0, shape1 |-> sh1, shape2 |-> shape2,
                   arr1 |-> arr1, arr2 |-> r.arr2]
             ELSE tryShapes2(f, sh0, sh1, arr1, needed, shape2 + 1)

\* the overlap test with the items of slot 0 left out
overlapBelowAfterFirst(f, sh1, pairs0, arr1, item) ==
    \E q \in neighbors(f, sh1, Len(arr1)) :
        q < Len(arr1) /\ q > 0 /\ pairIndex(f.n, item, arr1[q + 1]) \in pairs0

\* searchArr1Worker: hasOverlap of item at pos = Len(arr1)
overlapBelow(f, sh1, pairs0, arr1, item) ==
    \E q \in neighbors(f, sh1, Len(arr1)) :
        q < Len(arr1) /\ pairIndex(f.n, item, arr1[q + 1]) \in pairs0

\* search of searchArr1Worker while found stays false and no arr2 succeeds:
\* the complete arr1 it reaches (localCount++), in the order it reaches them
RECURSIVE visit1(_, _, _, _), visitItems1(_, _, _, _, _)
visit1(f, sh1, pairs0, arr1) ==
    IF Len(arr1) = f.n THEN <<arr1>> ELSE visitItems1(f, sh1, pairs0, arr1, 0)

visitItems1(f, sh1, pairs0, arr1, item) ==
    IF item >= f.n THEN <<>>
    ELSE (IF item \in Range(arr1) \/ overlapBelow(f, sh1, pairs0, arr1, item) THEN <<>>
          ELSE visit1(f, sh1, pairs0, Append(arr1, item)))
         \o visitItems1(f, sh1, pairs0, arr1, item + 1)

\* the complete arr1 of the worker of firstItem, and its localCount
visitedArr1(f, sh0, sh1, firstItem) ==
    visit1(f, sh1, buildPairsTable(f, sh0, Identity(f.n)), <<firstItem>>)

\* search of searchArr1Worker at pos = Len(arr1), and its loop over the items:
\* the first Solution the worker would send, or [ok |-> FALSE].
RECURSIVE search1(_, _, _, _, _), items1(_, _, _, _, _, _)
search1(f, sh0, sh1, pairs0, arr1) ==
    IF Len(arr1) = f.n
    THEN LET pairs1 == buildPairsTable(f, sh1, arr1)
             needed == AllPairs(f.n) \ (pairs0 \cup pairs1)
         IN  tryShapes2(f, sh0, sh1, arr1, needed, FirstShape2(sh1))
    ELSE items1(f, sh0, sh1, pairs0, arr1, 0)

\* src/solver_k/solver_13_3.go 196-221: searchArr1Worker: search, loop over item
items1(f, sh0, sh1, pairs0, arr1, item) ==
    IF item >= f.n THEN [ok |-> FALSE]
    ELSE IF item \in Range(arr1)
         THEN items1(f, sh0, sh1, pairs0, arr1, item + 1)
         ELSE LET hasOverlap == overlapBelow(f, sh1, pairs0, arr1, item)
                  r == search1(f, sh0, sh1, pairs0, Append(arr1, item))
              IN  IF ~hasOverlap /\ r.ok THEN r
                  ELSE items1(f, sh0, sh1, pairs0, arr1, item + 1)

searchArr1Worker(f, sh0, sh1, firstItem) ==
    search1(f, sh0, sh1, buildPairsTable(f, sh0, Identity(f.n)), <<firstItem>>)

\* src/solver_k/solver_13_3.go 228-230: main not started
S13Idle ==
    /\ fam = <<>> /\ shape0 = 0 /\ shape1 = 0 /\ found13 = FALSE
    /\ resultChan = <<>> /\ w13 = <<>> /\ main13 = "idle" /\ sol13 = <<>> /\ sent = 0
    /\ countChan = <<>>

\* The families run under fair scheduling: four items on graphs of which one
\* has a single edge, so that some families have no witness, some have one
\* for the first pair of shapes and some for a later pair.
GraphE == << <<0, 1>> >>

FairFamilies == {[n |-> 4, graphs |-> gs] : gs \in [1..NumShapes -> {GraphM, GraphP, GraphE}]}

S13InitIn(fams) ==
    /\ fam \in fams
    /\ shape0 = 0 /\ shape1 = 0
    /\ found13 = FALSE
    /\ resultChan = <<>>
    /\ countChan = <<>>
    /\ w13 = [fi \in 0..(fam.n - 1) |->
                [pc |-> "idle", sol |-> [ok |-> FALSE], visits |-> 0, count |-> 0]]
    /\ main13 = "head"
    /\ sol13 = [ok |-> FALSE]
    /\ sent = 0

S13Init == S13InitIn(Families)

\* main: the heads of both loops hold, one goroutine per firstItem is started.
\* What a worker's search comes to depends on its arguments only; it is
\* worked out here, once, and kept in sol and visits (the localCount of a
\* search that runs to its end) until the worker has run.
Launch13 ==
    /\ main13 = "head"
    /\ shape0 < NumShapes /\ shape1 < NumShapes /\ ~found13
    /\ w13' = [fi \in DOMAIN w13 |->
                LET sol == searchArr1Worker(fam, shape0, shape1, fi)
                IN  [pc |-> "run", sol |-> sol,
                     visits |-> IF sol.ok THEN 0
                                ELSE Len(visitedArr1(fam, shape0, shape1, fi)),
                     count |-> 0]]
    /\ countChan' = <<>>
    /\ main13' = "wait"
    /\ UNCHANGED <<fam, shape0, shape1, found13, resultChan, sol13, sent>>
    /\ UNCHANGED s13Rest

\* main: wg.Wait() is over, countChan is closed and read to its end; break
\* when found, else the next shape pair
Join13 ==
    /\ main13 = "wait"
    /\ \A fi \in DOMAIN w13 : w13[fi].pc = "done"
    /\ countChan' = <<>>
    /\ IF found13 THEN main13' = "report" /\ UNCHANGED <<shape0, shape1>>
       ELSE IF shape1 + 1 < NumShapes
            THEN main13' = "head" /\ shape1' = shape1 + 1 /\ UNCHANGED shape0
            ELSE /\ shape0' = shape0 + 1
                 /\ shape1' = shape0 + 1
                 /\ main13' = IF shape0 + 1 < NumShapes THEN "head" ELSE "report"
    /\ UNCHANGED <<fam, found13, resultChan, w13, sol13, sent>>
    /\ UNCHANGED s13Rest

\* main: the report, sol := <-resultChan when the flag is set
Report13 ==
    /\ main13 = "report"
    /\ IF found13
       THEN /\ resultChan # <<>>
            /\ sol13' = Head(resultChan)
            /\ resultChan' = Tail(resultChan)
            /\ main13' = "found"
       ELSE main13' = "none" /\ UNCHANGED <<sol13, resultChan>>
    /\ UNCHANGED <<fam, shape0, shape1, found13, countChan, w13, sent>>
    /\ UNCHANGED s13Rest

\* a worker's search up to its first success, or to its end; count is the
\* localCount that a search run to its end sends on countChan
RunSearch(fi) ==
    /\ main13 = "wait"
    /\ w13[fi].pc = "run"
    /\ ~found13
    /\ w13' = [w13 EXCEPT ![fi] =
                 IF w13[fi].sol.ok THEN [w13[fi] EXCEPT !.pc = "cas"]
                 ELSE [w13[fi] EXCEPT !.pc = "count", !.count = w13[fi].visits]]
    /\ UNCHANGED <<fam, shape0, shape1, found13, resultChan, countChan, main13, sol13, sent>>
    /\ UNCHANGED s13Rest

\* a worker that reads the flag set returns from every call of search
Abort13(fi) ==
    /\ main13 = "wait"
    /\ w13[fi].pc = "run"
    /\ found13
    /\ w13' = [w13 EXCEPT ![fi].pc = "count"]
    /\ UNCHANGED <<fam, shape0, shape1, found13, resultChan, countChan, main13, sol13, sent>>
    /\ UNCHANGED s13Rest

\* found.CompareAndSwap(false, true)
\* src/solver_k/solver_13_3.go 188-188: found.CompareAndSwap(false, true)
CompareAndSwap(flag) == flag = FALSE

\* success && found.CompareAndSwap(false, true): the send, or the loop over
\* shape2 ends on the set flag
CasSend(fi) ==
    /\ main13 = "wait"
    /\ w13[fi].pc = "cas"
    /\ IF CompareAndSwap(found13)
       THEN /\ found13' = TRUE
            /\ Len(resultChan) < 1
            /\ resultChan' = Append(resultChan, w13[fi].sol)
            /\ sent' = sent + 1
       ELSE UNCHANGED <<found13, resultChan, sent>>
    /\ w13' = [w13 EXCEPT ![fi].pc = "count"]
    /\ UNCHANGED <<fam, shape0, shape1, countChan, main13, sol13>>
    /\ UNCHANGED s13Rest

\* a countChan that holds one count
countChanCapOne(f) == 1

\* make(chan int64, numItems)
countChanCap(f) == f.n

\* search(1) has returned: countChan <- localCount, on a channel that holds
\* numItems counts; the goroutine ends
SendCount(fi) ==
    /\ main13 = "wait"
    /\ w13[fi].pc = "count"
    /\ Len(countChan) < countChanCap(fam)
    /\ countChan' = Append(countChan, w13[fi].count)
    /\ w13' = [w13 EXCEPT ![fi].pc = "done"]
    /\ UNCHANGED <<fam, shape0, shape1, found13, resultChan, main13, sol13, sent>>
    /\ UNCHANGED s13Rest

\* src/solver_k/solver_13_3.go 153-309: searchArr1Worker, main
S13Next ==
    \/ Launch13
    \/ Join13
    \/ Report13
    \/ \E fi \in DOMAIN w13 : RunSearch(fi)
    \/ \E fi \in DOMAIN w13 : Abort13(fi)
    \/ \E fi \in DOMAIN w13 : CasSend(fi)
    \/ \E fi \in DOMAIN w13 : SendCount(fi)

----------------------------------------------------------------------------
(***************************************************************************)
(* The exhaustive two-arrangement check for n = 7 of                       *)
(* prove_n13_needs_4_v2.m: the identity on graph g1 with the p-th          *)
(* permutation on graph g2, for every g1, g2 and p.  Items are 1..7.       *)
(***************************************************************************)
graph1Edges == << <<0, 1>>, <<0, 2>>, <<0, 3>>, <<0, 4>>, <<0, 5>>, <<0, 6>>,
                  <<1, 2>>, <<1, 6>>, <<2, 3>>, <<3, 4>>, <<4, 5>>, <<5, 6>> >>

graph2Edges == << <<0, 1>>, <<0, 2>>, <<0, 3>>, <<0, 5>>, <<0, 6>>, <<1, 3>>,
                  <<1, 4>>, <<1, 6>>, <<2, 3>>, <<2, 5>>, <<3, 4>> >>

graph3Edges == << <<0, 1>>, <<0, 2>>, <<0, 4>>, <<0, 5>>, <<0, 6>>, <<1, 5>>,
                  <<1, 6>>, <<2, 3>>, <<2, 4>>, <<2, 5>>, <<3, 4>> >>

graph4Edges == << <<0, 1>>, <<0, 2>>, <<0, 4>>, <<0, 6>>, <<1, 4>>, <<1, 6>>,
                  <<2, 3>>, <<2, 4>>, <<2, 5>>, <<3, 4>>, <<3, 5>> >>

allGraphs == <<graph1Edges, graph2Edges, graph3Edges, graph4Edges>>

numItems == 7

items == [i \in 1..numItems |-> i]

totalPairsNeeded == (numItems * (numItems - 1)) \div 2

RECURSIVE Factorial(_)
\* src/mathematica/prove_n13_needs_4_v2.m 753-754: Length[Permutations[items]]
Factorial(n) == IF n <= 1 THEN 1 ELSE n * Factorial(n - 1)

\* Permutations[list][[r + 1]]: the permutations of a list in the order of
\* the positions of its elements.
RECURSIVE PermutationAt(_, _)
\* src/mathematica/prove_n13_needs_4_v2.m 753-753: Permutations[items][[p]]
PermutationAt(list, r) ==
    IF list = <<>> THEN <<>>
    ELSE LET f == Factorial(Len(list) - 1)
             idx == (r \div f) + 1
         IN  <<list[idx]>> \o
             PermutationAt(SubSeq(list, 1, idx - 1) \o SubSeq(list, idx + 1, Len(list)),
                           r % f)

numArrangements == Factorial(numItems)

\* src/mathematica/prove_n13_needs_4_v2.m 753-753: allArrangements
allArrangements(q) == PermutationAt(items, q - 1)

\* getPairsFromArrangement; the list it returns is kept as the set of its
\* entries, which is all Union looks at.
getPairsUnsorted(graphEdges, arrangement) ==
    {<<arrangement[e[1] + 1], arrangement[e[2] + 1]>> : e \in Range(graphEdges)}

getPairsFromArrangement(graphEdges, arrangement) ==
    {IF arrangement[e[1] + 1] <= arrangement[e[2] + 1]
     THEN <<arrangement[e[1] + 1], arrangement[e[2] + 1]>>
     ELSE <<arrangement[e[2] + 1], arrangement[e[1] + 1]>> : e \in Range(graphEdges)}

combinedPairs(gg1, gg2, q) ==
    getPairsFromArrangement(allGraphs[gg1], items) \cup
    getPairsFromArrangement(allGraphs[gg2], allArrangements(q))

\* src/mathematica/prove_n13_needs_4_v2.m 780-781: before the search
N7Idle ==
    /\ g1 = 0 /\ g2 = 0 /\ p = 0 /\ foundSolution = FALSE /\ checksPerformed = 0

N7Init ==
    /\ g1 = 1 /\ g2 = 1 /\ p = 1 /\ foundSolution = FALSE /\ checksPerformed = 0

\* one pass of the body of the loop over p
N7Check ==
    /\ g1 <= Len(allGraphs) /\ g2 <= Len(allGraphs) /\ p <= numArrangements
    /\ ~foundSolution
    /\ IF Cardinality(combinedPairs(g1, g2, p)) = totalPairsNeeded
       THEN foundSolution' = TRUE /\ UNCHANGED <<p, checksPerformed>>
       ELSE /\ checksPerformed' = checksPerformed + 1
            /\ p' = p + 1
            /\ UNCHANGED foundSolution
    /\ UNCHANGED <<g1, g2>>
    /\ UNCHANGED n7Rest

\* the loop over p has ended without a solution: the next g2
N7NextGraph2 ==
    /\ g1 <= Len(allGraphs) /\ g2 <= Len(allGraphs) /\ p > numArrangements
    /\ ~foundSolution
    /\ g2' = g2 + 1
    /\ p' = IF g2 + 1 <= Len(allGraphs) THEN 1 ELSE p
    /\ UNCHANGED <<g1, foundSolution, checksPerformed>>
    /\ UNCHANGED n7Rest

\* the loop over g2 has ended without a solution: the next g1
N7NextGraph1 ==
    /\ g1 <= Len(allGraphs) /\ g2 > Len(allGraphs)
    /\ ~foundSolution
    /\ g1' = g1 + 1
    /\ g2' = IF g1 + 1 <= Len(allGraphs) THEN 1 ELSE g2
    /\ p' = IF g1 + 1 <= Len(allGraphs) THEN 1 ELSE p
    /\ UNCHANGED <<foundSolution, checksPerformed>>
    /\ UNCHANGED n7Rest

\* src/mathematica/prove_n13_needs_4_v2.m 787-822: the three nested loops
N7Next ==
    \/ N7Check
    \/ N7NextGraph2
    \/ N7NextGraph1

----------------------------------------------------------------------------
(***************************************************************************)
(* find_fourth.  A candidate line is a string, kept as the sequence of its *)
(* characters; the run is for FindFourthN items on buildSpiral.            *)
(***************************************************************************)
FindFourthN == 7
MaxLines == 3
MaxFFWorkers == 2
MaxBadLines == 2

workCap == 1000
resultsCap == 100

\* The capacities of work and results in a run: those of the code, which
\* the few lines of a run here never fill, and capacities scaled down with
\* the number of lines, so that main finds work full and a worker finds
\* results full.
ScaledCap == 1

ChanCaps == {[work |-> workCap, results |-> resultsCap],
             [work |-> ScaledCap, results |-> ScaledCap]}

\* src/find_fourth/main.go 364-371: parseArray: decimal digits
Digits == <<"0", "1", "2", "3", "4", "5", "6", "7", "8", "9">>

\* src/find_fourth/main.go 368-368: strconv.Atoi: digit test
IsDigit(c) == \E i \in 1..10 : Digits[i] = c

\* src/find_fourth/main.go 368-368: strconv.Atoi: digit value
DigitVal(c) == (CHOOSE i \in 1..10 : Digits[i] = c) - 1

\* strings.Split(str, sep) for a one-character sep
RECURSIVE Split(_, _)
Split(str, sep) ==
    IF \A i \in DOMAIN str : str[i] # sep THEN <<str>>
    ELSE LET i == CHOOSE j \in DOMAIN str :
                      str[j] = sep /\ \A m \in 1..(j - 1) : str[m] # sep
         IN  <<SubSeq(str, 1, i - 1)>> \o Split(SubSeq(str, i + 1, Len(str)), sep)

\* strconv.Atoi with its error dropped: 0 for what is not a number
RECURSIVE DecimalValue(_)
\* src/find_fourth/main.go 368-368: strconv.Atoi: value of a digit string
DecimalValue(str) ==
    IF str = <<>> THEN 0
    ELSE 10 * DecimalValue(SubSeq(str, 1, Len(str) - 1)) + DigitVal(str[Len(str)])

Atoi(str) ==
    LET body == IF str # <<>> /\ str[1] \in {"+", "-"} THEN Tail(str) ELSE str
    IN  IF body = <<>> \/ \E i \in DOMAIN body : ~IsDigit(body[i]) THEN 0
        ELSE IF str[1] = "-" THEN 0 - DecimalValue(body)
        ELSE DecimalValue(body)

parseArray(str) ==
    LET parts == Split(str, ",")
    IN  [i \in DOMAIN parts |-> Atoi(parts[i])]

\* the text of an arrangement and of a candidate line, as the enumerator
\* that produces the input files writes them
RECURSIVE Itoa(_)
\* src/find_fourth/main.go 129-135: format of the arrangements in a candidate line
Itoa(v) == IF v < 10 THEN <<Digits[v + 1]>> ELSE Itoa(v \div 10) \o <<Digits[(v % 10) + 1]>>

RECURSIVE FormatArray(_)
\* src/find_fourth/main.go 129-135: format of the arrangements in a candidate line
FormatArray(arr) ==
    IF arr = <<>> THEN <<>>
    ELSE IF Len(arr) = 1 THEN Itoa(arr[1])
    ELSE Itoa(arr[1]) \o <<",">> \o FormatArray(Tail(arr))

\* src/find_fourth/main.go 129-135: format of a candidate line: arr1;arr2
FormatLine(arr1, arr2) == FormatArray(arr1) \o <<";">> \o FormatArray(arr2)

\* fullAdj and adjMatrix of main
\* src/find_fourth/main.go 65-72: main: fullAdj
fullAdj(edges, slot) ==
    {e[2] : e \in {x \in Range(edges) : x[1] = slot}} \cup
    {e[1] : e \in {x \in Range(edges) : x[2] = slot}}

adjMatrix(edges, s1, s2) == s2 \in fullAdj(edges, s1)

\* the pairs a worker marks covered for one arrangement of a candidate
\* src/find_fourth/main.go 144-150: worker: covered pairs of arr1 (arr2: 152-158)
coveredByArr(n, edges, arr) ==
    UNION {{pairIndex(n, arr[slot + 1], arr[adjSlot + 1]) : adjSlot \in fullAdj(edges, slot)} :
             slot \in 0..(n - 1)}

\* src/find_fourth/main.go 141-168: worker: covered, uncoveredPairs
uncoveredPairsOf(n, edges, arr1, arr2) ==
    LET covered == InducedPairs(n, edges, Identity(n)) \cup coveredByArr(n, edges, arr1)
                      \cup coveredByArr(n, edges, arr2)
    IN  {q \in (0..(n - 1)) \X (0..(n - 1)) :
            q[1] < q[2] /\ pairIndex(n, q[1], q[2]) \notin covered}

\* solveSAT: the assignments of items to slots that satisfy the clauses are
\* the bijections that put every uncovered pair on adjacent slots; arr3 is
\* decoded from the model the SAT solver returns.
SatModels(n, uncoveredPairs, edges) ==
    LET adjacent == {<<s1, s2>> \in (0..(n - 1)) \X (0..(n - 1)) : adjMatrix(edges, s1, s2)}
    IN  {arr \in PermSeqs(0..(n - 1)) :
            \A s1, s2 \in 0..(n - 1) :
                (<<arr[s1 + 1], arr[s2 + 1]>> \in uncoveredPairs /\ s1 # s2)
                    => <<s1, s2>> \in adjacent}

solveSAT(n, uncoveredPairs, edges) ==
    LET models == SatModels(n, uncoveredPairs, edges)
    IN  IF models = {} THEN [found |-> FALSE, arr3 |-> <<>>]
        ELSE [found |-> TRUE, arr3 |-> CHOOSE arr \in models : TRUE]

\* The body of a worker's loop for one candidate, after the stopFlag check:
\* [skip |-> TRUE] for a line that is passed over, else the result it sends.
examine(n, edges, cand) ==
    LET parts == Split(cand.line, ";")
        arr1 == parseArray(parts[1])
        arr2 == parseArray(parts[2])
        inRange == \A i \in 1..n : arr1[i] \in 0..(n - 1) /\ arr2[i] \in 0..(n - 1)
        uncoveredPairs == uncoveredPairsOf(n, edges, arr1, arr2)
        sat == solveSAT(n, uncoveredPairs, edges)
    IN  IF Len(parts) # 2 THEN [skip |-> TRUE]
        ELSE IF Len(arr1) # n \/ Len(arr2) # n THEN [skip |-> TRUE]
        ELSE IF ~inRange THEN [skip |-> FALSE, panic |-> TRUE]
        ELSE [skip |-> FALSE, panic |-> FALSE, index |-> cand.index, found |-> sat.found,
              uncoveredCount |-> Cardinality(uncoveredPairs),
              arr1 |-> arr1, arr2 |-> arr2, arr3 |-> sat.arr3]

\* Lines whose arrangements have the right count and length but a bad entry:
\* an entry that is not a number, an entry equal to n, a repeated item.
MalformedLines ==
    {FormatLine(Identity(FindFourthN), Identity(FindFourthN - 1)) \o <<",", "x">>,
     FormatLine(Identity(FindFourthN), Identity(FindFourthN - 1) \o <<FindFourthN>>),
     FormatLine(Identity(FindFourthN), Identity(FindFourthN - 1) \o <<1>>)}

\* a candidate line that a fourth arrangement completes
SolvableLine ==
    FormatLine(Identity(FindFourthN - 3) \o <<FindFourthN - 2, FindFourthN - 1, FindFourthN - 3>>,
               Identity(FindFourthN - 3) \o <<FindFourthN - 2, FindFourthN - 1, FindFourthN - 3>>)

\* The candidate lines of the model: a line with one arrangement only, a
\* line with a short arrangement, a candidate no fourth arrangement
\* completes and one that a fourth arrangement completes.
\* src/find_fourth/main.go 91-103: main: allLines read from the input files
CandLines ==
    {FormatArray(Identity(FindFourthN)),
     FormatLine(SubSeq(Identity(FindFourthN), 1, FindFourthN - 1), Identity(FindFourthN)),
     FormatLine(Identity(FindFourthN), Identity(FindFourthN)),
     SolvableLine}

\* what the workers work out for each line, worked out once
\* src/find_fourth/main.go 129-182: worker: one candidate after the stopFlag check, per line
Examined ==
    {<<l, examine(FindFourthN, buildSpiral(FindFourthN), [index |-> 0, line |-> l])>> :
        l \in CandLines \cup MalformedLines}

\* src/find_fourth/main.go 129-182: worker: one candidate after the stopFlag check
ExamineOf(cand) ==
    LET r == (CHOOSE x \in Examined : x[1] = cand.line)[2]
    IN  IF r.skip \/ r.panic THEN r ELSE [r EXCEPT !.index = cand.index]

\* src/find_fourth/main.go 33-38: main not started
FFIdle ==
    /\ allLines = <<>> /\ samples = 0 /\ nextLine = 0 /\ work = <<>>
    /\ workClosed = FALSE /\ results = <<>> /\ resultsClosed = FALSE
    /\ stopFlag = 0 /\ fw = <<>> /\ checkedCount = 0 /\ foundResult = <<>>
    /\ done = FALSE /\ ffMain = "idle" /\ collected = <<>>
    /\ chanCaps = <<>>

\* checkCount of main
checkCount ==
    IF samples = 0 \/ samples > Len(allLines) THEN Len(allLines) ELSE samples

FFInit ==
    /\ allLines \in UNION {[1..m -> CandLines] : m \in 0..MaxLines}
    /\ samples \in 0..1
    /\ chanCaps \in ChanCaps
    /\ nextLine = 0
    /\ work = <<>> /\ workClosed = FALSE
    /\ results = <<>> /\ resultsClosed = FALSE
    /\ stopFlag = 0
    /\ fw \in UNION {[1..m -> {[pc |-> "recv", cand |-> <<>>, res |-> <<>>]}] :
                       m \in 1..MaxFFWorkers}
    /\ checkedCount = 0
    /\ foundResult = <<>>
    /\ done = FALSE
    /\ ffMain = "loop"
    /\ collected = <<>>

\* main started on input files that hold lines with bad entries next to
\* the candidate a fourth arrangement completes
FFInitMalformed ==
    /\ allLines \in UNION {[1..m -> MalformedLines \cup {SolvableLine}] : m \in 1..MaxBadLines}
    /\ samples = 0
    /\ chanCaps = [work |-> workCap, results |-> resultsCap]
    /\ nextLine = 0
    /\ work = <<>> /\ workClosed = FALSE
    /\ results = <<>> /\ resultsClosed = FALSE
    /\ stopFlag = 0
    /\ fw \in UNION {[1..m -> {[pc |-> "recv", cand |-> <<>>, res |-> <<>>]}] :
                       m \in 1..MaxFFWorkers}
    /\ checkedCount = 0
    /\ foundResult = <<>>
    /\ done = FALSE
    /\ ffMain = "loop"
    /\ collected = <<>>

\* main: the head of the dispatch loop; on its exit, close(work)
FFLoopHead ==
    /\ ffMain = "loop"
    /\ IF nextLine < checkCount /\ stopFlag = 0
       THEN ffMain' = "put" /\ UNCHANGED workClosed
       ELSE ffMain' = "wait" /\ workClosed' = TRUE
    /\ UNCHANGED <<allLines, samples, chanCaps, nextLine, work, results, resultsClosed, stopFlag,
                   fw, checkedCount, foundResult, done, collected>>
    /\ UNCHANGED ffRest

\* main: work <- candidate{index: i, line: allLines[i]}
FFPut ==
    /\ ffMain = "put"
    /\ Len(work) < chanCaps.work
    /\ work' = Append(work, [index |-> nextLine, line |-> allLines[nextLine + 1]])
    /\ nextLine' = nextLine + 1
    /\ ffMain' = "loop"
    /\ UNCHANGED <<allLines, samples, chanCaps, workClosed, results, resultsClosed, stopFlag,
                   fw, checkedCount, foundResult, done, collected>>
    /\ UNCHANGED ffRest

\* main: wg.Wait() is over, close(results)
FFCloseResults ==
    /\ ffMain = "wait"
    /\ \A w \in DOMAIN fw : fw[w].pc = "done"
    /\ resultsClosed' = TRUE
    /\ ffMain' = "join"
    /\ UNCHANGED <<allLines, samples, chanCaps, nextLine, work, workClosed, results, stopFlag,
                   fw, checkedCount, foundResult, done, collected>>
    /\ UNCHANGED ffRest

\* main: <-done, and the report
FFFinish ==
    /\ ffMain = "join"
    /\ done
    /\ ffMain' = "done"
    /\ UNCHANGED <<allLines, samples, chanCaps, nextLine, work, workClosed, results, resultsClosed,
                   stopFlag, fw, checkedCount, foundResult, done, collected>>
    /\ UNCHANGED ffRest

\* worker: for cand := range work
FFRecv(w) ==
    /\ ffMain # "panic"    /\ fw[w].pc = "recv"
    /\ work # <<>>
    /\ fw' = [fw EXCEPT ![w] = [pc |-> "check", cand |-> Head(work), res |-> <<>>]]
    /\ work' = Tail(work)
    /\ UNCHANGED <<allLines, samples, chanCaps, nextLine, workClosed, results, resultsClosed,
                   stopFlag, checkedCount, foundResult, done, ffMain, collected>>
    /\ UNCHANGED ffRest

\* worker: work is closed and drained, the goroutine ends
FFWorkerExit(w) ==
    /\ ffMain # "panic"    /\ fw[w].pc = "recv"
    /\ work = <<>> /\ workClosed
    /\ fw' = [fw EXCEPT ![w].pc = "done"]
    /\ UNCHANGED <<allLines, samples, chanCaps, nextLine, work, workClosed, results, resultsClosed,
                   stopFlag, checkedCount, foundResult, done, ffMain, collected>>
    /\ UNCHANGED ffRest

\* worker: the stopFlag check, then the candidate up to the result to send
FFExamine(w) ==
    /\ ffMain # "panic"
    /\ fw[w].pc = "check"
    /\ LET r == ExamineOf(fw[w].cand)
       IN  IF stopFlag = 0 /\ ~r.skip /\ r.panic
           THEN /\ fw' = [fw EXCEPT ![w].pc = "panic"]
                /\ ffMain' = "panic"
           ELSE /\ fw' = [fw EXCEPT ![w] =
                           IF stopFlag # 0 \/ r.skip
                           THEN [pc |-> "recv", cand |-> <<>>, res |-> <<>>]
                           ELSE [pc |-> "send", cand |-> fw[w].cand, res |-> r]]
                /\ UNCHANGED ffMain
    /\ UNCHANGED <<allLines, samples, chanCaps, nextLine, work, workClosed, results, resultsClosed,
                   stopFlag, checkedCount, foundResult, done, collected>>
    /\ UNCHANGED ffRest

\* worker: results <- result{...}
FFSend(w) ==
    /\ ffMain # "panic"    /\ fw[w].pc = "send"
    /\ Len(results) < chanCaps.results
    /\ results' = Append(results, fw[w].res)
    /\ fw' = [fw EXCEPT ![w] =
                IF fw[w].res.found THEN [fw[w] EXCEPT !.pc = "store"]
                ELSE [pc |-> "recv", cand |-> <<>>, res |-> <<>>]]
    /\ UNCHANGED <<allLines, samples, chanCaps, nextLine, work, workClosed, resultsClosed,
                   stopFlag, checkedCount, foundResult, done, ffMain, collected>>
    /\ UNCHANGED ffRest

\* worker: if found { atomic.StoreInt32(&stopFlag, 1) }
FFStore(w) ==
    /\ ffMain # "panic"    /\ fw[w].pc = "store"
    /\ stopFlag' = 1
    /\ fw' = [fw EXCEPT ![w] = [pc |-> "recv", cand |-> <<>>, res |-> <<>>]]
    /\ UNCHANGED <<allLines, samples, chanCaps, nextLine, work, workClosed, results, resultsClosed,
                   checkedCount, foundResult, done, ffMain, collected>>
    /\ UNCHANGED ffRest

\* collector: a result is received (collected lists the indices of the
\* results with found set, in the order they were received)
FFCollect ==
    /\ ffMain # "panic"    /\ ~done
    /\ results # <<>>
    /\ LET res == Head(results)
       IN  /\ checkedCount' = checkedCount + 1
           /\ foundResult' = IF res.found THEN res ELSE foundResult
           /\ collected' = IF res.found THEN Append(collected, res.index) ELSE collected
    /\ results' = Tail(results)
    /\ UNCHANGED <<allLines, samples, chanCaps, nextLine, work, workClosed, resultsClosed,
                   stopFlag, fw, done, ffMain>>
    /\ UNCHANGED ffRest

\* collector: results is closed and drained, close(done)
FFCollectorExit ==
    /\ ffMain # "panic"    /\ ~done
    /\ results = <<>> /\ resultsClosed
    /\ done' = TRUE
    /\ UNCHANGED <<allLines, samples, chanCaps, nextLine, work, workClosed, results, resultsClosed,
                   stopFlag, fw, checkedCount, foundResult, ffMain, collected>>
    /\ UNCHANGED ffRest

\* src/find_fourth/main.go 119-246: workers, collector, dispatch loop
FFNext ==
    \/ FFLoopHead
    \/ FFPut
    \/ FFCloseResults
    \/ FFFinish
    \/ FFCollect
    \/ FFCollectorExit
    \/ \E w \in DOMAIN fw : FFRecv(w)
    \/ \E w \in DOMAIN fw : FFWorkerExit(w)
    \/ \E w \in DOMAIN fw : FFExamine(w)
    \/ \E w \in DOMAIN fw : FFSend(w)
    \/ \E w \in DOMAIN fw : FFStore(w)

----------------------------------------------------------------------------
(***************************************************************************)
(* solveSAT of find_fourth/main.go: the clauses it builds, the external    *)
(* solver's answer (any satisfying assignment, or Unsat when there is      *)
(* none) and the decoding of arr3.  satAdj is adjMatrix as the set of the  *)
(* cells <<s1, s2>> that are true; a model is the set of its true          *)
(* variables.                                                              *)
(***************************************************************************)
MaxSatN == 3
MaxFreeSatN == 2

\* src/find_fourth/main.go 269-271: solveSAT: varIdx
varIdx(n, item, slot) == item * n + slot + 1

\* the cells <<i, j>> of an n x n table in the order of two nested loops
\* src/find_fourth/main.go 317-318: solveSAT: for s1, for s2 (order of two nested loops)
CellSeq(n) == [i \in 1..(n * n) |-> <<(i - 1) \div n, (i - 1) % n>>]

\* the triples <<i, j, k>> with j < k in the order of three nested loops
\* src/find_fourth/main.go 285-290: solveSAT: for item, for s1, for s2 := s1+1
TripleSeq(n) ==
    SelectSeq([i \in 1..(n * n * n) |->
                  <<(i - 1) \div (n * n), ((i - 1) \div n) % n, (i - 1) % n>>],
              LAMBDA x : x[2] < x[3])

\* Constraint 1: each item in at least one slot
itemSomeSlot(n) == [item \in 1..n |-> [slot \in 1..n |-> varIdx(n, item - 1, slot - 1)]]

\* Constraint 2: each item in at most one slot
itemOneSlot(n) ==
    [i \in 1..Len(TripleSeq(n)) |->
        LET x == TripleSeq(n)[i] IN <<-varIdx(n, x[1], x[2]), -varIdx(n, x[1], x[3])>>]

\* Constraint 3: each slot has at least one item
slotSomeItem(n) == [slot \in 1..n |-> [item \in 1..n |-> varIdx(n, item - 1, slot - 1)]]

\* Constraint 4: each slot has at most one item
slotOneItem(n) ==
    [i \in 1..Len(TripleSeq(n)) |->
        LET x == TripleSeq(n)[i] IN <<-varIdx(n, x[2], x[1]), -varIdx(n, x[3], x[1])>>]

\* the adjacent cells in the order the loops over s1 and s2 meet them
\* src/find_fourth/main.go 317-319: solveSAT: cells with adjMatrix[s1][s2]
adjCells(n, adj) == SelectSeq(CellSeq(n), LAMBDA c : c \in adj)

\* aux tied to a@s1 only
auxClausesFirstOnly(n, a, b, s1, s2, aux) ==
    << <<-aux, varIdx(n, a, s1)>>,
       <<-varIdx(n, a, s1), -varIdx(n, b, s2), aux>> >>

\* the three clauses that tie aux to (a@s1 AND b@s2)
auxClauses(n, a, b, s1, s2, aux) ==
    << <<-aux, varIdx(n, a, s1)>>,
       <<-aux, varIdx(n, b, s2)>>,
       <<-varIdx(n, a, s1), -varIdx(n, b, s2), aux>> >>

RECURSIVE Flatten(_)
\* src/find_fourth/main.go 317-330: solveSAT: clauses = append(clauses, ...) over the loops
Flatten(ss) == IF ss = <<>> THEN <<>> ELSE Head(ss) \o Flatten(Tail(ss))

\* Constraint 5 for one uncovered pair, aux numbered from first
pairClauses(n, adj, pair, first) ==
    LET cells == adjCells(n, adj)
        auxVars == [i \in 1..Len(cells) |-> first + i - 1]
    IN  Flatten([i \in 1..Len(cells) |->
                    auxClauses(n, pair[1], pair[2], cells[i][1], cells[i][2], auxVars[i])])
            \o <<auxVars>>

\* the evaluation of a clause and the satisfying assignments of a problem
\* src/find_fourth/main.go 337-339: solver.ParseSlice: a clause's literals
Lits(clause) == {clause[i] : i \in DOMAIN clause}
\* src/find_fourth/main.go 337-339: solver.ParseSlice: a clause's variables
ClauseVars(clause) == {Abs(l) : l \in Lits(clause)}
\* src/find_fourth/main.go 337-339: s.Solve: a clause holds under an assignment
SatisfiedBy(m, clause) == \E l \in Lits(clause) : IF l > 0 THEN l \in m ELSE (-l) \notin m

\* The assignments of the variables 1..hi that satisfy every clause over
\* these variables, built from the ones over 1..lo by blocks of variables.
RECURSIVE ModelsUpTo(_, _, _)
\* src/find_fourth/main.go 337-346: s.Solve / s.Model: the satisfying assignments
ModelsUpTo(cl, blocks, j) ==
    IF j = 0 THEN {{}}
    ELSE LET before == UNION {blocks[i] : i \in 1..(j - 1)}
             now == before \cup blocks[j]
             fresh == {i \in DOMAIN cl : ClauseVars(cl[i]) \subseteq now
                                          /\ ~(ClauseVars(cl[i]) \subseteq before /\ j > 1)}
             prev == ModelsUpTo(cl, blocks, j - 1)
         IN  UNION {{m \cup a : a \in {b \in SUBSET blocks[j] :
                                          \A i \in fresh : SatisfiedBy(m \cup b, cl[i])}} :
                      m \in prev}

\* the variables in the order they are numbered: x, then the aux of each pair
\* src/find_fourth/main.go 311-323: solveSAT: x variables 1..n*n, then nextVar++ per aux
VarBlocks(n, adj, numPairsGiven) ==
    LET A == Len(adjCells(n, adj))
    IN  <<1..(n * n)>> \o [k \in 1..numPairsGiven |->
                              (n * n + (k - 1) * A + 1)..(n * n + k * A)]

\* src/find_fourth/main.go 337-346: s.Solve / s.Model: the satisfying assignments
Models(n, adj, cl, numPairsGiven) ==
    LET blocks == VarBlocks(n, adj, numPairsGiven)
    IN  ModelsUpTo(cl, blocks, Len(blocks))

\* len(model): the highest variable of the problem
\* src/find_fourth/main.go 346-351: len(model)
NbVars(cl) == LET vs == UNION {ClauseVars(cl[i]) : i \in DOMAIN cl}
              IN  IF vs = {} THEN 0 ELSE CHOOSE v \in vs : \A w \in vs : w <= v

\* Extract solution: items in increasing order, each at its first true slot
RECURSIVE decodeFrom(_, _, _, _, _)
decodeFrom(n, m, len, item, acc) ==
    IF item >= n THEN acc
    ELSE LET slots == {slot \in 0..(n - 1) :
                          varIdx(n, item, slot) <= len /\ varIdx(n, item, slot) \in m}
         IN  IF slots = {} THEN decodeFrom(n, m, len, item + 1, acc)
             ELSE LET slot == CHOOSE x \in slots : \A y \in slots : x <= y
                  IN  decodeFrom(n, m, len, item + 1, [acc EXCEPT ![slot + 1] = item])

decode(n, m, len) == decodeFrom(n, m, len, 0, [i \in 1..n |-> 0])

\* src/find_fourth/main.go 266-266: solveSAT not called
SatIdle ==
    /\ satN = 0 /\ satAdj = {} /\ satPairs = <<>> /\ clauses = <<>> /\ nextVar = 0
    /\ pairIdx = 0 /\ status = "none" /\ model = {} /\ arr3 = <<>> /\ satPc = "idle"

\* adjacency matrices and uncovered pairs as main builds them (symmetric,
\* a < b), and for n <= MaxFreeSatN any matrix and any pairs
\* src/find_fourth/main.go 153-161: main: uncoveredPairs with a < b
UpperCells(n) == {c \in Range(CellSeq(n)) : c[1] < c[2]}
\* src/find_fourth/main.go 75-82: main: adjMatrix from the edges (symmetric); any matrix for small n
SatInputs(n) ==
    IF n <= MaxFreeSatN
    THEN {<<adj, prs>> : adj \in SUBSET Range(CellSeq(n)), prs \in SUBSET Range(CellSeq(n))}
    ELSE {<<es \cup {<<c[2], c[1]>> : c \in es}, prs>> :
             es \in SUBSET UpperCells(n), prs \in SUBSET UpperCells(n)}

SatInit ==
    /\ satN \in 1..MaxSatN
    /\ \E inp \in SatInputs(satN) :
          /\ satAdj = inp[1]
          /\ satPairs = SelectSeq(CellSeq(satN), LAMBDA c : c \in inp[2])
    /\ clauses = <<>> /\ nextVar = 0 /\ pairIdx = 0
    /\ status = "none" /\ model = {} /\ arr3 = <<>> /\ satPc = "build"

\* Constraints 1-4 and the first auxiliary variable
SatBijection ==
    /\ satPc = "build"
    /\ clauses' = itemSomeSlot(satN) \o itemOneSlot(satN) \o slotSomeItem(satN)
                      \o slotOneItem(satN)
    /\ nextVar' = satN * satN + 1
    /\ pairIdx' = 1
    /\ satPc' = "pairs"
    /\ UNCHANGED <<satN, satAdj, satPairs, status, model, arr3>>
    /\ UNCHANGED satRest

\* Constraint 5: one iteration of the loop over uncoveredPairs
SatPair ==
    /\ satPc = "pairs"
    /\ pairIdx <= Len(satPairs)
    /\ clauses' = clauses \o pairClauses(satN, satAdj, satPairs[pairIdx], nextVar)
    /\ nextVar' = nextVar + Len(adjCells(satN, satAdj))
    /\ pairIdx' = pairIdx + 1
    /\ UNCHANGED <<satN, satAdj, satPairs, status, model, arr3, satPc>>
    /\ UNCHANGED satRest

\* s.Solve() finds the problem satisfiable, with any of its models
SatSolveSat ==
    /\ satPc = "pairs"
    /\ pairIdx > Len(satPairs)
    /\ \E m \in Models(satN, satAdj, clauses, Len(satPairs)) :
          /\ model' = m
          /\ status' = "Sat"
          /\ satPc' = "decode"
    /\ UNCHANGED <<satN, satAdj, satPairs, clauses, nextVar, pairIdx, arr3>>
    /\ UNCHANGED satRest

\* s.Solve() finds no model: return false, nil
SatSolveUnsat ==
    /\ satPc = "pairs"
    /\ pairIdx > Len(satPairs)
    /\ Models(satN, satAdj, clauses, Len(satPairs)) = {}
    /\ status' = "Unsat"
    /\ satPc' = "done"
    /\ UNCHANGED <<satN, satAdj, satPairs, clauses, nextVar, pairIdx, model, arr3>>
    /\ UNCHANGED satRest

\* Extract solution and return true, arr3
SatDecode ==
    /\ satPc = "decode"
    /\ arr3' = decode(satN, model, NbVars(clauses))
    /\ satPc' = "done"
    /\ UNCHANGED <<satN, satAdj, satPairs, clauses, nextVar, pairIdx, status, model>>
    /\ UNCHANGED satRest

\* src/find_fourth/main.go 266-362: solveSAT
SatNext ==
    \/ SatBijection
    \/ SatPair
    \/ SatSolveSat
    \/ SatSolveUnsat
    \/ SatDecode

----------------------------------------------------------------------------
(***************************************************************************)
(* canonicalize.go: the exhaustive canonical form of a graph (a bitmask    *)
(* over the edge ids of initEdges), the worker pool over the groups of     *)
(* the input file and the global merge.                                    *)
(***************************************************************************)
MaxCanonN == 4
MaxCanonPoolN == 3
MaxCanonWorkers == 2

\* initEdges: edgePairs in the order of the loops over i and j > i, and
\* edgeIndex, its inverse
\* src/canonicalize.go 20-37: initEdges: edgePairs
edgePairsTable == [n \in 1..MaxCanonN |-> SelectSeq(CellSeq(n), LAMBDA c : c[1] < c[2])]
\* src/canonicalize.go 20-37: initEdges: edgePairs
edgePairs(n) == edgePairsTable[n]
\* src/canonicalize.go 20-37: initEdges: edgeIndex
edgeIndexTable ==
    [n \in 1..MaxCanonN |->
        [c \in {x \in Range(CellSeq(n)) : x[1] # x[2]} |->
            CHOOSE idx \in 0..(Len(edgePairsTable[n]) - 1) :
                edgePairsTable[n][idx + 1] \in {c, <<c[2], c[1]>>}]]
\* src/canonicalize.go 20-37: initEdges: edgeIndex
edgeIndex(n, i, j) == edgeIndexTable[n][<<i, j>>]

\* g & (1 << idx) != 0
\* src/canonicalize.go 53-53: canonical: g&(1<<idx) != 0
HasBit(g, idx) == (g \div (2 ^ idx)) % 2 = 1

\* the value whose set bits are bits
RECURSIVE BitsValue(_)
\* src/canonicalize.go 59-59: canonical: relabeled |= 1 << ...
BitsValue(bits) ==
    IF bits = {} THEN 0
    ELSE LET b == CHOOSE x \in bits : TRUE IN 2 ^ b + BitsValue(bits \ {b})

\* canonical, k == 1: the graph relabeled by perm (each edge ORed in)
relabeled(n, g, perm) ==
    BitsValue({edgeIndex(n, perm[e[1] + 1], perm[e[2] + 1]) :
                 e \in {edgePairs(n)[idx + 1] :
                          idx \in {x \in 0..(Len(edgePairs(n)) - 1) : HasBit(g, x)}}})

\* no exchange at all
SwapNone(perm, a, b) == perm

\* perm[a], perm[b] = perm[b], perm[a]
Swap(perm, a, b) == [perm EXCEPT ![a + 1] = perm[b + 1], ![b + 1] = perm[a + 1]]

\* canonical: generate[k, i, st] is generate(k) resumed at loop index i with
\* perm and best as in st, and yields perm and best at its return
canonical(n, g) ==
    LET generate[k \in 1..n, i \in 0..n, st \in [perm : Seq(0..(n - 1)), best : Nat]] ==
            IF k = 1
            THEN LET r == relabeled(n, g, st.perm)
                 IN  IF r < st.best THEN [st EXCEPT !.best = r] ELSE st
            ELSE IF i >= k THEN st
            ELSE LET after == generate[k - 1, 0, st]
                     swapped == IF k % 2 = 0 THEN Swap(after.perm, i, k - 1)
                                ELSE Swap(after.perm, 0, k - 1)
                 IN  generate[k, i + 1, [after EXCEPT !.perm = swapped]]
    IN  generate[n, 0, [perm |-> Identity(n), best |-> g]].best

\* src/canonicalize.go 80-80: canonicalize not started
CanonIdle ==
    /\ cn = 0 /\ canonGroups = <<>> /\ groupChan = <<>> /\ groupChanClosed = FALSE
    /\ fed = 0 /\ canonResults = <<>> /\ canonResultsClosed = FALSE /\ cw = <<>>
    /\ allUnique = {} /\ canonMain = "idle" /\ outBin = {}

\* all graphs on n vertices
\* src/canonicalize.go 40-40: type Graph: the bitmasks over numEdges edge ids
AllGraphs(n) == 0..(2 ^ Len(edgePairs(n)) - 1)

\* The input file: two graphs, in one group or in a group each (the stages
\* before group by fingerprints; any grouping is a legal input).  Above
\* MaxCanonPoolN vertices the pool is one worker and the file one group.
CanonInit ==
    /\ cn \in 2..MaxCanonN
    /\ \E g \in AllGraphs(cn), h \in AllGraphs(cn) :
          /\ g <= h
          /\ canonGroups \in IF cn <= MaxCanonPoolN
                              THEN {<< <<g, h>> >>, << <<g>>, <<h>> >>}
                              ELSE {<< <<g, h>> >>}
    /\ groupChan = <<>> /\ groupChanClosed = FALSE /\ fed = 0
    /\ canonResults = <<>> /\ canonResultsClosed = FALSE
    /\ cw \in {[w \in 1..k |-> [pc |-> "recv", gIdx |-> 0, i |-> 0, seen |-> {}]] :
                 k \in 1..(IF cn <= MaxCanonPoolN THEN MaxCanonWorkers ELSE 1)}
    /\ allUnique = {} /\ canonMain = "merge" /\ outBin = {}

\* the feeding goroutine: groupChan <- i
CanonFeed ==
    /\ canonMain # "idle"
    /\ fed < Len(canonGroups)
    /\ groupChan' = Append(groupChan, fed)
    /\ fed' = fed + 1
    /\ UNCHANGED <<cn, canonGroups, groupChanClosed, canonResults, canonResultsClosed, cw,
                   allUnique, canonMain, outBin>>
    /\ UNCHANGED canonRest

\* close(groupChan)
CanonCloseGroupChan ==
    /\ canonMain # "idle"
    /\ fed = Len(canonGroups) /\ ~groupChanClosed
    /\ groupChanClosed' = TRUE
    /\ UNCHANGED <<cn, canonGroups, groupChan, fed, canonResults, canonResultsClosed, cw,
                   allUnique, canonMain, outBin>>
    /\ UNCHANGED canonRest

\* a worker receives a group index: seen := make(map)
CanonTake(w) ==
    /\ cw[w].pc = "recv"
    /\ groupChan # <<>>
    /\ cw' = [cw EXCEPT ![w] = [pc |-> "graphs", gIdx |-> Head(groupChan), i |-> 1,
                                seen |-> {}]]
    /\ groupChan' = Tail(groupChan)
    /\ UNCHANGED <<cn, canonGroups, groupChanClosed, fed, canonResults, canonResultsClosed,
                   allUnique, canonMain, outBin>>
    /\ UNCHANGED canonRest

\* range groupChan ends: wg.Done()
CanonWorkerExit(w) ==
    /\ cw[w].pc = "recv"
    /\ groupChan = <<>> /\ groupChanClosed
    /\ cw' = [cw EXCEPT ![w].pc = "done"]
    /\ UNCHANGED <<cn, canonGroups, groupChan, groupChanClosed, fed, canonResults,
                   canonResultsClosed, allUnique, canonMain, outBin>>
    /\ UNCHANGED canonRest

\* seen[gr.canonical()] = true for the next graph of the group
CanonGraph(w) ==
    /\ cw[w].pc = "graphs"
    /\ cw[w].i <= Len(canonGroups[cw[w].gIdx + 1])
    /\ cw' = [cw EXCEPT ![w].seen = @ \cup {canonical(cn, canonGroups[cw[w].gIdx + 1][cw[w].i])},
                        ![w].i = @ + 1]
    /\ UNCHANGED <<cn, canonGroups, groupChan, groupChanClosed, fed, canonResults,
                   canonResultsClosed, allUnique, canonMain, outBin>>
    /\ UNCHANGED canonRest

\* results <- seen
CanonSend(w) ==
    /\ cw[w].pc = "graphs"
    /\ cw[w].i > Len(canonGroups[cw[w].gIdx + 1])
    /\ canonResults' = Append(canonResults, cw[w].seen)
    /\ cw' = [cw EXCEPT ![w].pc = "recv"]
    /\ UNCHANGED <<cn, canonGroups, groupChan, groupChanClosed, fed, canonResultsClosed,
                   allUnique, canonMain, outBin>>
    /\ UNCHANGED canonRest

\* wg.Wait(); close(results)
CanonCloseResults ==
    /\ cw # <<>>
    /\ \A w \in DOMAIN cw : cw[w].pc = "done"
    /\ ~canonResultsClosed
    /\ canonResultsClosed' = TRUE
    /\ UNCHANGED <<cn, canonGroups, groupChan, groupChanClosed, fed, canonResults, cw,
                   allUnique, canonMain, outBin>>
    /\ UNCHANGED canonRest

\* main: for seen := range results { allUnique[g] = true }
CanonMerge ==
    /\ canonMain = "merge"
    /\ canonResults # <<>>
    /\ allUnique' = allUnique \cup Head(canonResults)
    /\ canonResults' = Tail(canonResults)
    /\ UNCHANGED <<cn, canonGroups, groupChan, groupChanClosed, fed, canonResultsClosed, cw,
                   canonMain, outBin>>
    /\ UNCHANGED canonRest

\* main: results is closed and drained; write the unique graphs
CanonWrite ==
    /\ canonMain = "merge"
    /\ canonResults = <<>> /\ canonResultsClosed
    /\ outBin' = allUnique
    /\ canonMain' = "done"
    /\ UNCHANGED <<cn, canonGroups, groupChan, groupChanClosed, fed, canonResults,
                   canonResultsClosed, cw, allUnique>>
    /\ UNCHANGED canonRest

\* src/canonicalize.go 148-214: main
CanonNext ==
    \/ CanonFeed
    \/ CanonCloseGroupChan
    \/ \E w \in DOMAIN cw : CanonTake(w)
    \/ \E w \in DOMAIN cw : CanonWorkerExit(w)
    \/ \E w \in DOMAIN cw : CanonGraph(w)
    \/ \E w \in DOMAIN cw : CanonSend(w)
    \/ CanonCloseResults
    \/ CanonMerge
    \/ CanonWrite

----------------------------------------------------------------------------
(***************************************************************************)
(* refine_hash (Graph.fingerprint, grouping by fingerprint) and wl_refine   *)
(* (Graph.wlFingerprint, splitting each group by WL fingerprint).  Strings *)
(* are sequences of characters, compared byte by byte as Go compares them. *)
(***************************************************************************)
MaxFpN == 4
wlIterations == 3

\* src/unnamed/part_009 100-106: byte values of the characters fmt.Sprint produces, for the string comparison keys[i].neighDegs < keys[j].neighDegs
CharCode ==
    (" " :> 32) @@ ("0" :> 48) @@ ("1" :> 49) @@ ("2" :> 50) @@ ("3" :> 51) @@ ("4" :> 52)
    @@ ("5" :> 53) @@ ("6" :> 54) @@ ("7" :> 55) @@ ("8" :> 56) @@ ("9" :> 57)
    @@ (":" :> 58) @@ ("[" :> 91) @@ ("]" :> 93) @@ ("{" :> 123) @@ ("}" :> 125)

\* a < b for strings
RECURSIVE StrLess(_, _)
\* src/unnamed/part_009 103-103: keys[i].neighDegs < keys[j].neighDegs (Go string comparison)
StrLess(a, b) ==
    IF b = <<>> THEN FALSE
    ELSE IF a = <<>> THEN TRUE
    ELSE IF CharCode[Head(a)] # CharCode[Head(b)] THEN CharCode[Head(a)] < CharCode[Head(b)]
    ELSE StrLess(Tail(a), Tail(b))

\* fmt.Sprint of a []int: "[1 2 3]"
RECURSIVE JoinInts(_)
\* src/unnamed/part_009 94-94: fmt.Sprint([]int), elements
JoinInts(xs) ==
    IF xs = <<>> THEN <<>>
    ELSE IF Len(xs) = 1 THEN Itoa(xs[1])
    ELSE Itoa(xs[1]) \o <<" ">> \o JoinInts(Tail(xs))

\* src/unnamed/part_009 94-94: fmt.Sprint(infos[v].neighDegs)
SprintInts(xs) == <<"[">> \o JoinInts(xs) \o <<"]">>

\* sort.Ints
RECURSIVE sortInts(_)
\* src/unnamed/part_009 80-80: sort.Ints
sortInts(xs) ==
    IF xs = <<>> THEN <<>>
    ELSE LET i == CHOOSE a \in DOMAIN xs :
                     /\ \A b \in DOMAIN xs : xs[a] <= xs[b]
                     /\ \A b \in 1..(a - 1) : xs[b] # xs[a]
         IN  <<xs[i]>> \o sortInts(SubSeq(xs, 1, i - 1) \o SubSeq(xs, i + 1, Len(xs)))

\* src/unnamed/part_009 36-41: Graph.hasEdge
hasEdge(n, g, i, j) == HasBit(g, edgeIndex(n, i, j))

\* neighbors(v), in increasing order
\* src/unnamed/part_009 43-51: Graph.neighbors
neighborsOf(n, g, v) ==
    SelectSeq([u \in 1..n |-> u - 1], LAMBDA u : u # v /\ hasEdge(n, g, v, u))

\* src/unnamed/part_009 53-55: Graph.degree
degree(n, g, v) == Len(neighborsOf(n, g, v))

\* fingerprint: infos[v], with neighDegs already printed
vertexKey(n, g, v) ==
    LET neighs == neighborsOf(n, g, v)
    IN  [degree |-> Len(neighs),
         triangles |-> Cardinality({q \in (DOMAIN neighs) \X (DOMAIN neighs) :
                                      q[1] < q[2] /\ hasEdge(n, g, neighs[q[1]], neighs[q[2]])}),
         neighDegs |-> SprintInts(sortInts([i \in DOMAIN neighs |-> degree(n, g, neighs[i])]))]

\* the comparison of sort.Slice in fingerprint
\* src/unnamed/part_009 97-104: fingerprint: less function of sort.Slice
keyLess(a, b) ==
    IF a.degree # b.degree THEN a.degree > b.degree
    ELSE IF a.triangles # b.triangles THEN a.triangles > b.triangles
    ELSE StrLess(a.neighDegs, b.neighDegs)

\* sort.Slice(keys, less): the orders a sort by less may leave (sort.Slice
\* is not stable)
sortedKeys(keys) ==
    {[i \in DOMAIN keys |-> keys[q[i]]] :
        q \in {x \in PermSeqs(DOMAIN keys) :
                  \A i \in 1..(Len(keys) - 1) : ~keyLess(keys[x[i + 1]], keys[x[i]])}}

\* fmt.Sprint(keys): "[{2 0 [1 1]} {1 0 [2]}]"
RECURSIVE JoinKeys(_)
\* src/unnamed/part_009 106-106: fmt.Sprint(keys), elements
JoinKeys(keys) ==
    IF keys = <<>> THEN <<>>
    ELSE LET k == <<"{">> \o Itoa(keys[1].degree) \o <<" ">> \o Itoa(keys[1].triangles)
                     \o <<" ">> \o keys[1].neighDegs \o <<"}">>
         IN  IF Len(keys) = 1 THEN k ELSE k \o <<" ">> \o JoinKeys(Tail(keys))

\* the strings fingerprint may return
fingerprint(n, g) ==
    {<<"[">> \o JoinKeys(ks) \o <<"]">> : ks \in sortedKeys([v \in 1..n |-> vertexKey(n, g, v - 1)])}

\* wlFingerprint: sig of vertex v under colors
\* src/unnamed/part_010 66-73: wlFingerprint: neighColors and sig
wlSig(n, g, colors, v) ==
    Itoa(colors[v + 1]) \o <<":">>
        \o SprintInts(sortInts([i \in DOMAIN neighborsOf(n, g, v) |->
                                   colors[neighborsOf(n, g, v)[i] + 1]]))

\* one iteration, from vertex v on: colorMap is the set of <<sig, color>> so far
RECURSIVE wlRound(_, _, _, _, _, _, _)
wlRound(n, g, colors, v, colorMap, newColors, nextColor) ==
    IF v >= n THEN newColors
    ELSE LET sig == wlSig(n, g, colors, v)
             hit == {e \in colorMap : e[1] = sig}
         IN  IF hit # {}
             THEN wlRound(n, g, colors, v + 1, colorMap,
                          [newColors EXCEPT ![v + 1] = (CHOOSE e \in hit : TRUE)[2]], nextColor)
             ELSE wlRound(n, g, colors, v + 1, colorMap \cup {<<sig, nextColor>>},
                          [newColors EXCEPT ![v + 1] = nextColor], nextColor + 1)

RECURSIVE wlColors(_, _, _, _)
wlColors(n, g, colors, iter) ==
    IF iter = 0 THEN colors
    ELSE wlColors(n, g, wlRound(n, g, colors, 0, {}, [v \in 1..n |-> 0], 0), iter - 1)

wlFingerprint(n, g, iterations) ==
    SprintInts(sortInts(wlColors(n, g, [v \in 1..n |-> degree(n, g, v - 1)], iterations)))

\* groups[fp] = append(groups[fp], g) on a map from strings to lists
\* src/unnamed/part_009 158-158: groups[fp] = append(groups[fp], g)
AddToGroup(groups, fp, g) ==
    IF fp \in DOMAIN groups THEN [groups EXCEPT ![fp] = Append(@, g)]
    ELSE (fp :> <<g>>) @@ groups

\* the lists of a map in the orders a range over the map may visit them
\* src/unnamed/part_009 177-187: for _, gs := range groups (map iteration order)
GroupOrders(groups) ==
    {[i \in DOMAIN q |-> groups[q[i]]] : q \in PermSeqs(DOMAIN groups)}

\* src/unnamed/part_009 109-141: main before it runs
FpIdle ==
    /\ fpN = 0 /\ fpInput = <<>> /\ fpNext = 0 /\ fpGroups = <<>> /\ fpFile = <<>>
    /\ wlNext = 0 /\ wlResults = <<>> /\ fpPc = "idle"

\* The input file of refine_hash: a graph and one of its relabelings.
FpInit ==
    /\ fpN \in 2..MaxFpN
    /\ \E g \in AllGraphs(fpN), pi \in PermSeqs(0..(fpN - 1)) :
          fpInput = <<g, relabeled(fpN, g, pi)>>
    /\ fpNext = 1 /\ fpGroups = <<>> /\ fpFile = <<>>
    /\ wlNext = 0 /\ wlResults = <<>> /\ fpPc = "hash"

\* refine_hash: read the next graph, fingerprint it, add it to its group
FpRead ==
    /\ fpPc = "hash"
    /\ fpNext <= Len(fpInput)
    /\ \E fp \in fingerprint(fpN, fpInput[fpNext]) :
          fpGroups' = AddToGroup(fpGroups, fp, fpInput[fpNext])
    /\ fpNext' = fpNext + 1
    /\ UNCHANGED <<fpN, fpInput, fpFile, wlNext, wlResults, fpPc>>
    /\ UNCHANGED fpRest

\* refine_hash: end of input, write the groups (range over the map)
FpWrite ==
    /\ fpPc = "hash"
    /\ fpNext > Len(fpInput)
    /\ fpFile' \in GroupOrders(fpGroups)
    /\ wlNext' = 1
    /\ fpPc' = "wl"
    /\ UNCHANGED <<fpN, fpInput, fpNext, fpGroups, wlResults>>
    /\ UNCHANGED fpRest

\* wl_refine: read the next group, split it by wlFingerprint(3), append the
\* subgroups (range over the map) to allResults
WlGroup ==
    /\ fpPc = "wl"
    /\ wlNext <= Len(fpFile)
    /\ LET graphs == fpFile[wlNext]
           addAll[i \in 0..Len(graphs)] ==
               IF i = 0 THEN <<>>
               ELSE AddToGroup(addAll[i - 1], wlFingerprint(fpN, graphs[i], wlIterations),
                               graphs[i])
       IN  \E sgs \in GroupOrders(addAll[Len(graphs)]) : wlResults' = wlResults \o sgs
    /\ wlNext' = wlNext + 1
    /\ UNCHANGED <<fpN, fpInput, fpNext, fpGroups, fpFile, fpPc>>
    /\ UNCHANGED fpRest

\* wl_refine: all groups read, write allResults
WlWrite ==
    /\ fpPc = "wl"
    /\ wlNext > Len(fpFile)
    /\ fpPc' = "done"
    /\ UNCHANGED <<fpN, fpInput, fpNext, fpGroups, fpFile, wlNext, wlResults>>
    /\ UNCHANGED fpRest

\* src/unnamed/part_009 109-213: refine_hash main, then wl_refine main
FpNext ==
    \/ FpRead
    \/ FpWrite
    \/ WlGroup
    \/ WlWrite

----------------------------------------------------------------------------
(***************************************************************************)
(* filter_maximal: the graph6 codec and the maximality filter.  A Graph is *)
(* a uint64 bit mask, modelled as the set of its set bits; a graph6 line   *)
(* is the sequence of its byte values.                                     *)
(***************************************************************************)
MaxFmN == 4
MaxPoolLen == 3
MaxLongPoolN == 3
ShortPoolLen == 2
MaxG6N == 12
ReadN == 5
MaxReadLines == 3
GraphWidth == 64

\* 1 << idx on a Graph: zero when the shift reaches the width
\* src/filter_maximal.go 12-12: 1 << idx on type Graph uint64
Shl1(idx) == IF idx < GraphWidth THEN {idx} ELSE {}

\* initEdges: edgeIndex[i][j], the position of {i, j} in the loop over i < j
\* src/filter_maximal.go 20-36: initEdges: edgeIndex
fmEdgeIndex(n, i, j) ==
    LET a == IF i < j THEN i ELSE j
        b == IF i < j THEN j ELSE i
    IN  a * n - (a * (a + 1)) \div 2 + (b - a - 1)

\* initEdges: edgePairs[idx]
\* src/filter_maximal.go 20-36: initEdges: edgePairs, for each n
fmEdgePairsTable ==
    [n \in 1..(MaxG6N + 1) |->
        [idx \in 0..((n * (n - 1)) \div 2 - 1) |->
            CHOOSE e \in (0..(n - 1)) \X (0..(n - 1)) :
                e[1] < e[2] /\ fmEdgeIndex(n, e[1], e[2]) = idx]]
\* src/filter_maximal.go 20-36: initEdges: edgePairs
fmEdgePairs(n) == fmEdgePairsTable[n]

\* generate with the swap of the even case at every k
permutationsOneSwap(n) ==
    IF n = 0 THEN <<<<>>>>
    ELSE LET generate[k \in 1..n, i \in 0..n, st \in [arr : Seq(0..(n - 1)), result : Seq(Seq(0..(n - 1)))]] ==
                 IF k = 1 THEN [st EXCEPT !.result = Append(st.result, st.arr)]
                 ELSE IF i >= k THEN st
                 ELSE LET after == generate[k - 1, 0, st]
                          swapped == Swap(after.arr, i, k - 1)
                      IN  generate[k, i + 1, [after EXCEPT !.arr = swapped]]
         IN  generate[n, 0, [arr |-> Identity(n), result |-> <<>>]].result

\* permutations(n): the list built by generate(n)
permutations(n) ==
    IF n = 0 THEN <<<<>>>>
    ELSE LET generate[k \in 1..n, i \in 0..n, st \in [arr : Seq(0..(n - 1)), result : Seq(Seq(0..(n - 1)))]] ==
                 IF k = 1 THEN [st EXCEPT !.result = Append(st.result, st.arr)]
                 ELSE IF i >= k THEN st
                 ELSE LET after == generate[k - 1, 0, st]
                          swapped == IF k % 2 = 0 THEN Swap(after.arr, i, k - 1)
                                     ELSE Swap(after.arr, 0, k - 1)
                      IN  generate[k, i + 1, [after EXCEPT !.arr = swapped]]
         IN  generate[n, 0, [arr |-> Identity(n), result |-> <<>>]].result

\* src/filter_maximal.go 37-37: allPerms = permutations(n), for each n
allPermsTable == [n \in 1..MaxFmN |-> Range(permutations(n))]
\* src/filter_maximal.go 37-37: allPerms
allPerms(n) == IF n \in DOMAIN allPermsTable THEN allPermsTable[n] ELSE Range(permutations(n))

edgeCount(g) == Cardinality(g)

\* isIsomorphicSubgraphOf: relabeled under perm
fmRelabeled(n, g, perm) ==
    UNION {Shl1(fmEdgeIndex(n, perm[fmEdgePairs(n)[idx][1] + 1], perm[fmEdgePairs(n)[idx][2] + 1])) :
             idx \in g}

isIsomorphicSubgraphOf(n, g, other) ==
    \E perm \in allPerms(n) : fmRelabeled(n, g, perm) \cap other = fmRelabeled(n, g, perm)

\* the pairs <<i, j>> of the loops "for j := 1; j < n" / "for i := 0; i < j"
\* src/filter_maximal.go 136-137: loops for j := 1; j < n / for i := 0; i < j, for each n
columnMajorTable ==
    [n \in 1..(MaxG6N + 1) |->
        [k \in 1..((n * (n - 1)) \div 2) |->
            CHOOSE e \in (0..(n - 1)) \X (0..(n - 1)) :
                e[1] < e[2] /\ (e[2] * (e[2] - 1)) \div 2 + e[1] + 1 = k]]
\* src/filter_maximal.go 136-137: loops for j := 1; j < n / for i := 0; i < j
columnMajor(n) == columnMajorTable[n]

\* toGraph6
toGraph6(n, g) ==
    LET cm == columnMajor(n)
        raw == [k \in DOMAIN cm |->
                   IF g \cap Shl1(fmEdgeIndex(n, cm[k][1], cm[k][2])) # {} THEN 1 ELSE 0]
        pad == (6 - (Len(raw) % 6)) % 6
        bits == raw \o [k \in 1..pad |-> 0]
    IN  <<n + 63>> \o
        [c \in 1..(Len(bits) \div 6) |->
            LET o == 6 * (c - 1)
            IN  bits[o + 1] * 32 + bits[o + 2] * 16 + bits[o + 3] * 8
                  + bits[o + 4] * 4 + bits[o + 5] * 2 + bits[o + 6] + 63]

\* parseGraph6 (no white space occurs in the lines of the model)
parseGraph6(n, line) ==
    IF Len(line) = 0 THEN {}
    ELSE IF line[1] - 63 # n THEN {}
    ELSE LET bits == [k \in 1..(6 * (Len(line) - 1)) |->
                         ((line[(k - 1) \div 6 + 2] - 63) \div (2 ^ (5 - ((k - 1) % 6)))) % 2]
             cm == columnMajor(n)
         IN  UNION {Shl1(fmEdgeIndex(n, cm[k][1], cm[k][2])) :
                      k \in {x \in DOMAIN cm : x <= Len(bits) /\ bits[x] = 1}}

\* any order of the graphs
anyOrders(gs) == {[i \in DOMAIN gs |-> gs[q[i]]] : q \in PermSeqs(DOMAIN gs)}

\* sort.Slice by edgeCount descending (not stable): the orders it may leave
edgeCountOrders(gs) ==
    {ord \in anyOrders(gs) :
        \A i \in 1..(Len(ord) - 1) : edgeCount(ord[i]) >= edgeCount(ord[i + 1])}

\* src/filter_maximal.go 155-166: main before it runs
FmIdle ==
    /\ fmN = 0 /\ fmLines = <<>> /\ fmRead = 0 /\ fmAllGraphs = <<>> /\ fmI = 0
    /\ maximal = <<>> /\ fmOut = <<>> /\ fmPc = "idle"

\* src/filter_maximal.go 12-12: Graph values on n vertices
FmGraphs(n) == SUBSET (0..((n * (n - 1)) \div 2 - 1))

\* Sequences of at most len graphs in one fixed order of the graphs (the
\* order of the lines is lost in the sort)
RECURSIVE Pools(_, _)
\* src/filter_maximal.go 169-185: contents of the input files
Pools(S, len) ==
    IF len = 0 \/ S = {} THEN {<<>>}
    ELSE LET g == CHOOSE x \in S : \A y \in S : Cardinality(y) < Cardinality(x) \/
                                        (Cardinality(y) = Cardinality(x) /\ BitsValue(y) <= BitsValue(x))
         IN  Pools(S \ {g}, len) \cup {<<g>> \o rest : rest \in Pools(S, len - 1)}

\* The input files: lines written by toGraph6 for graphs on fmN vertices,
\* and a last line for a graph on one more vertex.  Up to MaxPoolLen graphs
\* for fmN <= MaxLongPoolN, up to ShortPoolLen above.
FmInit ==
    /\ fmN \in 2..MaxFmN
    /\ \E pool \in Pools(FmGraphs(fmN), IF fmN <= MaxLongPoolN THEN MaxPoolLen ELSE ShortPoolLen) :
          fmLines \in {[i \in DOMAIN pool |-> toGraph6(fmN, pool[i])],
                       [i \in DOMAIN pool |-> toGraph6(fmN, pool[i])] \o <<toGraph6(fmN + 1, {0})>>}
    /\ fmRead = 1 /\ fmAllGraphs = <<>> /\ fmI = 0 /\ maximal = <<>> /\ fmOut = <<>>
    /\ fmPc = "read"

\* The graph on n vertices with the edges of a set of vertex pairs
fmGraphOf(n, pairs) == UNION {Shl1(fmEdgeIndex(n, e[1], e[2])) : e \in pairs}

\* Lines of input files that toGraph6 did not write for the run's n: the
\* line of a graph on one vertex less, a line cut after its first data
\* character, and a line with the character '>' (code 62) in its data.
OtherNLine == toGraph6(ReadN - 1, fmGraphOf(ReadN - 1, {<<0, 1>>}))
WholeLine == toGraph6(ReadN, fmGraphOf(ReadN, {<<0, 1>>, <<0, 2>>, <<1, 2>>, <<0, ReadN - 1>>}))
TruncatedLine == SubSeq(WholeLine, 1, 2)
BadCharLine == <<ReadN + 63, 62>> \o Tail(Tail(WholeLine))
ReadLines ==
    {WholeLine, toGraph6(ReadN, fmGraphOf(ReadN, {<<ReadN - 2, ReadN - 1>>})),
     OtherNLine, TruncatedLine, BadCharLine}

\* main started on input files with such lines
FmInitMalformed ==
    /\ fmN = ReadN
    /\ fmLines \in UNION {[1..m -> ReadLines] : m \in 1..MaxReadLines}
    /\ fmRead = 1 /\ fmAllGraphs = <<>> /\ fmI = 0 /\ maximal = <<>> /\ fmOut = <<>>
    /\ fmPc = "read"

\* main: scanner.Scan loop, one line
FmReadLine ==
    /\ fmPc = "read"
    /\ fmRead <= Len(fmLines)
    /\ LET g == parseGraph6(fmN, fmLines[fmRead])
       IN  fmAllGraphs' = IF g # {} THEN Append(fmAllGraphs, g) ELSE fmAllGraphs
    /\ fmRead' = fmRead + 1
    /\ UNCHANGED <<fmN, fmLines, fmI, maximal, fmOut, fmPc>>
    /\ UNCHANGED fmRest

\* main: all lines read, sort.Slice
FmSort ==
    /\ fmPc = "read"
    /\ fmRead > Len(fmLines)
    /\ fmAllGraphs' \in edgeCountOrders(fmAllGraphs)
    /\ fmI' = 1
    /\ fmPc' = "filter"
    /\ UNCHANGED <<fmN, fmLines, fmRead, maximal, fmOut>>
    /\ UNCHANGED fmRest

\* main: one iteration of the filter loop
FmFilter ==
    /\ fmPc = "filter"
    /\ fmI <= Len(fmAllGraphs)
    /\ LET g == fmAllGraphs[fmI]
           isSubgraph == \E k \in DOMAIN maximal : isIsomorphicSubgraphOf(fmN, g, maximal[k])
       IN  maximal' = IF ~isSubgraph THEN Append(maximal, g) ELSE maximal
    /\ fmI' = fmI + 1
    /\ UNCHANGED <<fmN, fmLines, fmRead, fmAllGraphs, fmOut, fmPc>>
    /\ UNCHANGED fmRest

\* main: write the output file
FmWrite ==
    /\ fmPc = "filter"
    /\ fmI > Len(fmAllGraphs)
    /\ fmOut' = [k \in DOMAIN maximal |-> toGraph6(fmN, maximal[k])]
    /\ fmPc' = "done"
    /\ UNCHANGED <<fmN, fmLines, fmRead, fmAllGraphs, fmI, maximal>>
    /\ UNCHANGED fmRest

\* src/filter_maximal.go 155-245: main
FmNext ==
    \/ FmReadLine
    \/ FmSort
    \/ FmFilter
    \/ FmWrite

----------------------------------------------------------------------------
(***************************************************************************)
(* The graph6 round trip of filter_maximal: a simple graph on g6N vertices *)
(* is stored in a Graph, written by toGraph6 and read back by parseGraph6. *)
(***************************************************************************)
MaxG6Edges == 2

\* src/filter_maximal.go 102-153: no round trip running
G6Idle ==
    /\ g6N = 0 /\ g6Edges = {} /\ g6Graph = {} /\ g6Line = <<>> /\ g6Back = {} /\ g6Pc = "idle"

\* src/filter_maximal.go 27-28: the pairs i < j of initEdges
VertexPairs(n) == {e \in (0..(n - 1)) \X (0..(n - 1)) : e[1] < e[2]}

\* the subsets of S of at most k elements
RECURSIVE SubsetsUpTo(_, _)
\* src/filter_maximal.go 27-28: sets of at most k edges
SubsetsUpTo(S, k) ==
    IF k = 0 THEN {{}}
    ELSE LET prev == SubsetsUpTo(S, k - 1)
         IN  prev \cup {x[1] \cup {x[2]} : x \in prev \X S}

\* The graphs with at most MaxG6Edges edges and their complements.
G6Init ==
    /\ g6N \in 1..MaxG6N
    /\ \E few \in SubsetsUpTo(VertexPairs(g6N), MaxG6Edges) :
          g6Edges \in {few, VertexPairs(g6N) \ few}
    /\ g6Graph = {} /\ g6Line = <<>> /\ g6Back = {} /\ g6Pc = "store"

\* g |= 1 << edgeIndex[i][j] for each edge
G6Store ==
    /\ g6Pc = "store"
    /\ g6Graph' = UNION {Shl1(fmEdgeIndex(g6N, e[1], e[2])) : e \in g6Edges}
    /\ g6Pc' = "encode"
    /\ UNCHANGED <<g6N, g6Edges, g6Line, g6Back>>
    /\ UNCHANGED g6Rest

G6Encode ==
    /\ g6Pc = "encode"
    /\ g6Line' = toGraph6(g6N, g6Graph)
    /\ g6Pc' = "decode"
    /\ UNCHANGED <<g6N, g6Edges, g6Graph, g6Back>>
    /\ UNCHANGED g6Rest

G6Decode ==
    /\ g6Pc = "decode"
    /\ g6Back' = parseGraph6(g6N, g6Line)
    /\ g6Pc' = "done"
    /\ UNCHANGED <<g6N, g6Edges, g6Graph, g6Line>>
    /\ UNCHANGED g6Rest

\* src/filter_maximal.go 102-153: store, encode, decode
G6Next ==
    \/ G6Store
    \/ G6Encode
    \/ G6Decode

----------------------------------------------------------------------------
(***************************************************************************)
(* generate_edges: the recursive enumeration of the edge-id subsets and    *)
(* the four tests.  genFrames holds the loop variable i of every active    *)
(* call of generate, outermost first; current is the OR of their bits.     *)
(***************************************************************************)
MaxGenN == 5
DegreeTestN == 8
WideTestN == 12
maxDegreeAllowed == 6

\* src/penny_enum/generate_edges.go 17-17: numEdges = n * (n - 1) / 2
genNumEdges(n) == (n * (n - 1)) \div 2

\* Graph.degrees
\* src/penny_enum/generate_edges.go 36-45: Graph.degrees
degrees(n, g) ==
    [v \in 0..(n - 1) |->
        Cardinality({idx \in 0..(genNumEdges(n) - 1) :
                        /\ g \cap Shl1(idx) # {}
                        /\ v \in {fmEdgePairs(n)[idx][1], fmEdgePairs(n)[idx][2]}})]

hasIsolated(n, g) == \E v \in 0..(n - 1) : degrees(n, g)[v] = 0

maxDegree(n, g) ==
    LET deg == degrees(n, g)
    IN  CHOOSE d \in Range(deg) \cup {0} : \A v \in 0..(n - 1) : deg[v] <= d

\* isConnected: adj[v], the set bits of the uint64 of v
\* src/penny_enum/generate_edges.go 62-69: isConnected: adj
genAdj(n, g) ==
    [v \in 0..(n - 1) |->
        UNION {IF fmEdgePairs(n)[idx][1] = v THEN Shl1(fmEdgePairs(n)[idx][2])
               ELSE IF fmEdgePairs(n)[idx][2] = v THEN Shl1(fmEdgePairs(n)[idx][1])
               ELSE {} :
                 idx \in {x \in 0..(genNumEdges(n) - 1) : g \cap Shl1(x) # {}}}]

\* isConnected: the loop over the queue; scan adds the unvisited neighbours
\* of node in increasing order
isConnected(n, g) ==
    IF g = {} THEN FALSE
    ELSE LET adj == genAdj(n, g)
             scan[neighbor \in 0..n, from \in 0..(n - 1), st \in [queue : Seq(0..(n - 1)), visited : SUBSET (0..63)]] ==
                 IF neighbor >= n THEN st
                 ELSE IF neighbor \in adj[from] /\ neighbor \notin st.visited
                      THEN scan[neighbor + 1, from,
                                [queue |-> Append(st.queue, neighbor),
                                 visited |-> st.visited \cup Shl1(neighbor)]]
                      ELSE scan[neighbor + 1, from, st]
             bfs[fuel \in 0..n, st \in [queue : Seq(0..(n - 1)), visited : SUBSET (0..63)]] ==
                 IF st.queue = <<>> \/ fuel = 0 THEN st.visited
                 ELSE bfs[fuel - 1, scan[0, Head(st.queue), [st EXCEPT !.queue = Tail(st.queue)]]]
         IN  bfs[n, [queue |-> <<0>>, visited |-> {0}]] = 0..(n - 1)

hasK4(n, g) ==
    LET has(a, b) == g \cap Shl1(fmEdgeIndex(n, a, b)) # {}
    IN  \E a, b, c, d \in 0..(n - 1) :
            /\ a < b /\ b < c /\ c < d
            /\ has(a, b) /\ has(a, c) /\ has(b, c)
            /\ has(a, d) /\ has(b, d) /\ has(c, d)

\* the test of a completed subset
passes(n, g) ==
    ~hasIsolated(n, g) /\ maxDegree(n, g) <= maxDegreeAllowed /\ isConnected(n, g) /\ ~hasK4(n, g)

bytesPerGraph(n) == IF genNumEdges(n) > 32 THEN 8 ELSE 4

\* the bytes written for current: its low 8 * bytesPerGraph bits
\* src/penny_enum/generate_edges.go 167-177: generate: bytes written for current
record(n, g) == {b \in g : b < 8 * bytesPerGraph(n)}

\* current of the innermost call
\* src/penny_enum/generate_edges.go 187-187: generate: current | (1 << i) along the active calls
genCurrent == UNION {Shl1(genFrames[k]) : k \in DOMAIN genFrames}

\* src/penny_enum/generate_edges.go 118-126: main before it runs
GenIdle ==
    /\ genN = 0 /\ targetEdges = 0 /\ genFrames = <<>> /\ genOut = <<>> /\ genTotal = 0
    /\ genPc = "idle"

\* a spanning path and the stars, as sets of edge ids
\* src/penny_enum/generate_edges.go 185-188: edge-id subsets reached by the loops: a path, the stars
GenShapes(n) ==
    {{fmEdgeIndex(n, v, v + 1) : v \in 0..(n - 2)}}
        \cup {{fmEdgeIndex(n, c, v) : v \in (0..(n - 1)) \ {c}} : c \in 0..(n - 1)}

\* the increasing sequence of a set of numbers
RECURSIVE Increasing(_)
\* src/penny_enum/generate_edges.go 185-188: loop variables of the active calls for a subset
Increasing(S) ==
    IF S = {} THEN <<>>
    ELSE LET x == CHOOSE y \in S : \A z \in S : y <= z IN <<x>> \o Increasing(S \ {x})

\* Up to MaxGenN vertices: main calls generate(0, 0, targetEdges).  At
\* DegreeTestN and WideTestN vertices: generate has reached the call with
\* remaining = 0 for a subset made of a path or a star and at most one more
\* edge id (every subset of targetEdges ids is reached by the loops); the
\* output before it is left out.
GenInit ==
    /\ genOut = <<>> /\ genTotal = 0
    /\ \/ /\ genN \in 2..MaxGenN
          /\ targetEdges \in 1..genNumEdges(genN)
          /\ genFrames = <<>>
          /\ genPc = "call"
       \/ /\ genN \in {DegreeTestN, WideTestN}
          /\ \E shape \in GenShapes(genN), more \in SubsetsUpTo(0..(genNumEdges(genN) - 1), 1) :
                genFrames = Increasing(shape \cup more)
          /\ targetEdges = Len(genFrames)
          /\ genPc = "leaf"

\* generate called with remaining > 0: return at once, or enter the loop
\* with i = startIdx and call generate(i + 1, current | 1 << i, remaining - 1)
GenCall ==
    /\ genPc = "call"
    /\ targetEdges - Len(genFrames) > 0
    /\ LET startIdx == IF genFrames = <<>> THEN 0 ELSE genFrames[Len(genFrames)] + 1
           remaining == targetEdges - Len(genFrames)
       IN  IF startIdx + remaining > genNumEdges(genN) \/ startIdx > genNumEdges(genN) - remaining
           THEN genPc' = "ret" /\ UNCHANGED genFrames
           ELSE genPc' = "call" /\ genFrames' = Append(genFrames, startIdx)
    /\ UNCHANGED <<genN, targetEdges, genOut, genTotal>>
    /\ UNCHANGED genRest

\* generate called with remaining = 0: test current, write it, return
GenLeaf ==
    /\ genPc \in {"call", "leaf"}
    /\ targetEdges - Len(genFrames) = 0
    /\ genTotal' = genTotal + 1
    /\ genOut' = IF passes(genN, genCurrent) THEN Append(genOut, record(genN, genCurrent))
                 ELSE genOut
    /\ genPc' = IF genPc = "leaf" THEN "done" ELSE "ret"
    /\ UNCHANGED <<genN, targetEdges, genFrames>>
    /\ UNCHANGED genRest

\* a call returned into the loop: i++ and the next call
GenLoopAgain ==
    /\ genPc = "ret"
    /\ genFrames # <<>>
    /\ LET d == Len(genFrames)
           remaining == targetEdges - d + 1
       IN  /\ genFrames[d] + 1 <= genNumEdges(genN) - remaining
           /\ genFrames' = [genFrames EXCEPT ![d] = @ + 1]
    /\ genPc' = "call"
    /\ UNCHANGED <<genN, targetEdges, genOut, genTotal>>
    /\ UNCHANGED genRest

\* a call returned into the loop: i++ ends the loop, the call returns
GenLoopEnd ==
    /\ genPc = "ret"
    /\ genFrames # <<>>
    /\ LET d == Len(genFrames)
           remaining == targetEdges - d + 1
       IN  /\ genFrames[d] + 1 > genNumEdges(genN) - remaining
           /\ genFrames' = SubSeq(genFrames, 1, d - 1)
    /\ genPc' = "ret"
    /\ UNCHANGED <<genN, targetEdges, genOut, genTotal>>
    /\ UNCHANGED genRest

\* generate(0, 0, targetEdges) returned to main: writer.Flush
GenFlush ==
    /\ genPc = "ret"
    /\ genFrames = <<>>
    /\ genPc' = "done"
    /\ UNCHANGED <<genN, targetEdges, genFrames, genOut, genTotal>>
    /\ UNCHANGED genRest

\* src/penny_enum/generate_edges.go 118-204: main and generate
GenNext ==
    \/ GenCall
    \/ GenLeaf
    \/ GenLoopAgain
    \/ GenLoopEnd
    \/ GenFlush

----------------------------------------------------------------------------
(***************************************************************************)
(* polyiamond_enum: a Vertex is <<A, B>>, a Triangle the sequence of its   *)
(* three vertices in sorted order, a Polyiamond the sequence of its        *)
(* triangles.  A map from keys to polyiamonds is a function.               *)
(***************************************************************************)
MaxTri == 6
MaxBigTri == 10
MaxPolyWorkers == 3
MaxOrdered == 3

\* src/polyiamond_enum/enumerate.go 26-31: makeTriangle: less function
VertexLess(u, v) == u[1] < v[1] \/ (u[1] = v[1] /\ u[2] < v[2])

\* makeTriangle: the three vertices sorted by A, then B
makeTriangle(v1, v2, v3) ==
    LET three == {v1, v2, v3}
        lo == CHOOSE x \in three : \A y \in three : ~VertexLess(y, x)
        hi == CHOOSE x \in three : \A y \in three : ~VertexLess(x, y)
        mid == CHOOSE x \in three : x # lo /\ x # hi
    IN  <<lo, mid, hi>>

rotateVertex60(v) == <<-v[2], v[1] + v[2]>>

reflectVertex(v) == <<v[1] + v[2], -v[2]>>

RECURSIVE rotateTimes(_, _)
\* src/polyiamond_enum/enumerate.go 53-57: transformTriangle: rotate loop
rotateTimes(v, r) == IF r = 0 THEN v ELSE rotateTimes(rotateVertex60(v), r - 1)

transformTriangle(tri, rotate, reflect) ==
    LET verts == [i \in 1..3 |->
                    rotateTimes(IF reflect THEN reflectVertex(tri[i]) ELSE tri[i], rotate % 6)]
    IN  makeTriangle(verts[1], verts[2], verts[3])

\* the less function of the sort in normalizePolyiamond
\* src/polyiamond_enum/enumerate.go 91-101: normalizePolyiamond: less function
TriangleLess(x, y) ==
    \E k \in 1..3 : /\ \A j \in 1..(k - 1) : x[j] = y[j]
                    /\ x[k] # y[k]
                    /\ VertexLess(x[k], y[k])

\* sort.Slice on triangles no two of which are equal
RECURSIVE sortTriangles(_)
\* src/polyiamond_enum/enumerate.go 90-101: normalizePolyiamond: sort.Slice
sortTriangles(S) ==
    IF S = {} THEN <<>>
    ELSE LET lo == CHOOSE x \in S : \A y \in S : ~TriangleLess(y, x)
         IN  <<lo>> \o sortTriangles(S \ {lo})

\* src/polyiamond_enum/enumerate.go 68-79: normalizePolyiamond: minA, minB
Min(S) == CHOOSE x \in S : \A y \in S : x <= y

normalizePolyiamond(poly) ==
    IF Len(poly) = 0 THEN poly
    ELSE LET minA == Min({poly[i][k][1] : i \in DOMAIN poly, k \in 1..3})
             minB == Min({poly[i][k][2] : i \in DOMAIN poly, k \in 1..3})
             moved == [i \in DOMAIN poly |->
                          makeTriangle(<<poly[i][1][1] - minA, poly[i][1][2] - minB>>,
                                       <<poly[i][2][1] - minA, poly[i][2][2] - minB>>,
                                       <<poly[i][3][1] - minA, poly[i][3][2] - minB>>)]
         IN  sortTriangles(Range(moved))

transformPolyiamond(poly, rotate, reflect) ==
    normalizePolyiamond([i \in DOMAIN poly |-> transformTriangle(poly[i], rotate, reflect)])

\* polyiamondKey: the numbers printed, in order
polyiamondKey(poly) ==
    [i \in 1..(6 * Len(poly)) |-> poly[(i - 1) \div 6 + 1][(((i - 1) % 6) \div 2) + 1][((i - 1) % 2) + 1]]

comparePolyiamonds(a, b) ==
    LET common == IF Len(a) < Len(b) THEN Len(a) ELSE Len(b)
        differ == {i \in 1..common : a[i] # b[i]}
    IN  IF differ = {} THEN Len(a) - Len(b)
        ELSE LET i == Min(differ)
                 k == Min({j \in 1..3 : a[i][j] # b[i][j]})
             IN  IF a[i][k][1] # b[i][k][1] THEN a[i][k][1] - b[i][k][1]
                 ELSE a[i][k][2] - b[i][k][2]

\* canonicalize without the reflections
canonicalizeRotationsOnly(poly) ==
    LET best[c \in 0..6] ==
            IF c = 0 THEN normalizePolyiamond(poly)
            ELSE LET candidate == transformPolyiamond(poly, c - 1, FALSE)
                     before == best[c - 1]
                 IN  IF comparePolyiamonds(candidate, before) < 0 THEN candidate ELSE before
    IN  best[6]

\* canonicalize: candidate c = 1..12 is rot = (c - 1) \div 2 with refl false, then true
canonicalize(poly) ==
    LET best[c \in 0..12] ==
            IF c = 0 THEN normalizePolyiamond(poly)
            ELSE LET candidate == transformPolyiamond(poly, (c - 1) \div 2, (c - 1) % 2 = 1)
                     before == best[c - 1]
                 IN  IF comparePolyiamonds(candidate, before) < 0 THEN candidate ELSE before
    IN  best[12]

getAdjacentTriangles(tri) ==
    {makeTriangle(tri[i], tri[(i % 3) + 1],
                  <<tri[i][1] + tri[(i % 3) + 1][1] - tri[((i + 1) % 3) + 1][1],
                    tri[i][2] + tri[(i % 3) + 1][2] - tri[((i + 1) % 3) + 1][2]>>) : i \in 1..3}

getBoundary(poly) ==
    UNION {getAdjacentTriangles(poly[i]) : i \in DOMAIN poly} \ Range(poly)

addTriangle(poly, tri) == Append(poly, tri)

\* src/polyiamond_enum/enumerate.go 206-210: enumeratePolyiamonds: initial
initialPolyiamond == <<makeTriangle(<<0, 0>>, <<1, 0>>, <<0, 1>>)>>

\* a map from keys to polyiamonds is the set of its <<key, value>> entries
\* src/polyiamond_enum/enumerate.go 216-218: map[string]Polyiamond keyed by polyiamondKey
MapOf(S) == {<<polyiamondKey(x), x>> : x \in S}

\* src/polyiamond_enum/enumerate.go 224-226: for _, p := range current
MapValues(mp) == {e[2] : e \in mp}

\* for k, v := range local { mp[k] = v }
\* src/polyiamond_enum/enumerate.go 259-261: for k, v := range localNext { next[k] = v }
MapPutAll(mp, local) ==
    LET keys == {e[1] : e \in local}
    IN  {e \in mp : e[1] \notin keys} \cup local

\* the worker body: localNext of a chunk
\* src/polyiamond_enum/enumerate.go 247-257: worker: localNext
localNext(chunk) ==
    MapOf(UNION {{canonicalize(addTriangle(shape, newTri)) : newTri \in getBoundary(shape)} :
                    shape \in chunk})

\* shapes[start:end] of every worker that is started, for shapes in the
\* order given
\* src/polyiamond_enum/enumerate.go 233-245: enumeratePolyiamonds: chunkSize, start, end
chunksOf(shapes, nw) ==
    LET chunkSize == (Len(shapes) + nw - 1) \div nw
        started == {w \in 0..(nw - 1) : w * chunkSize < Len(shapes)}
    IN  [w \in 1..Cardinality(started) |->
            LET start == (w - 1) * chunkSize
                end == IF start + chunkSize > Len(shapes) THEN Len(shapes) ELSE start + chunkSize
            IN  Range(SubSeq(shapes, start + 1, end))]

\* The orders a range over a map of the polyiamonds of S may yield: every
\* order up to MaxOrdered polyiamonds, one order above.
RECURSIVE SomeOrder(_)
\* src/polyiamond_enum/enumerate.go 224-226: range over a map: one order
SomeOrder(S) ==
    IF S = {} THEN <<>>
    ELSE LET x == CHOOSE y \in S : TRUE IN <<x>> \o SomeOrder(S \ {x})

\* src/polyiamond_enum/enumerate.go 224-226: range over a map: the orders
RangeOrders(S) == IF Cardinality(S) <= MaxOrdered THEN PermSeqs(S) ELSE {SomeOrder(S)}

\* polyiamondToGraph6: vertexSet and edgeSet (an edge is <<v1, v2>> with v1 before v2)
\* src/polyiamond_enum/enumerate.go 345-352: polyiamondToGraph6: vertexSet
vertexSet(poly) == {poly[i][k] : i \in DOMAIN poly, k \in 1..3}

\* src/polyiamond_enum/enumerate.go 346-359: polyiamondToGraph6: edgeSet
edgeSet(poly) ==
    {IF VertexLess(poly[q[1]][(q[2] % 3) + 1], poly[q[1]][q[2]])
     THEN <<poly[q[1]][(q[2] % 3) + 1], poly[q[1]][q[2]]>>
     ELSE <<poly[q[1]][q[2]], poly[q[1]][(q[2] % 3) + 1]>> : q \in (DOMAIN poly) \X (1..3)}

\* polyiamondToGraph: (len(vertices), len(edges))
polyiamondToGraph(poly) == <<Cardinality(vertexSet(poly)), Cardinality(edgeSet(poly))>>

\* the sorted vertex list
RECURSIVE sortVertices(_)
\* src/polyiamond_enum/enumerate.go 362-372: polyiamondToGraph6: sorted vertex list
sortVertices(S) ==
    IF S = {} THEN <<>>
    ELSE LET lo == CHOOSE x \in S : \A y \in S : ~VertexLess(y, x)
         IN  <<lo>> \o sortVertices(S \ {lo})

\* polyiamondToGraph6: the line, as byte values
polyiamondToGraph6(poly) ==
    LET vertices == sortVertices(vertexSet(poly))
        nv == Len(vertices)
        edges == edgeSet(poly)
        adj(i, j) == <<vertices[i + 1], vertices[j + 1]>> \in edges
                        \/ <<vertices[j + 1], vertices[i + 1]>> \in edges
        col(k) == CHOOSE j \in 1..(nv - 1) : (j * (j - 1)) \div 2 < k /\ k <= (j * (j + 1)) \div 2
        raw == [k \in 1..((nv * (nv - 1)) \div 2) |->
                   IF adj(k - (col(k) * (col(k) - 1)) \div 2 - 1, col(k)) THEN 1 ELSE 0]
        pad == (6 - (Len(raw) % 6)) % 6
        bits == raw \o [k \in 1..pad |-> 0]
        head == IF nv <= 62 THEN <<nv + 63>>
                ELSE <<126, (nv \div 4096) + 63, ((nv \div 64) % 64) + 63, (nv % 64) + 63>>
    IN  head \o
        [c \in 1..(Len(bits) \div 6) |->
            LET o == 6 * (c - 1)
            IN  bits[o + 1] * 32 + bits[o + 2] * 16 + bits[o + 3] * 8
                  + bits[o + 4] * 4 + bits[o + 5] * 2 + bits[o + 6] + 63]

\* src/polyiamond_enum/enumerate.go 567-576: main before it runs
PolyIdle ==
    /\ minTri = 0 /\ maxTri = 0 /\ targetV = 0 /\ targetE = 0 /\ workers = 0 /\ nTri = 0
    /\ polySize = 0 /\ current = {} /\ polyNext = {} /\ chunks = <<>> /\ pending = {}
    /\ allMatches = <<>> /\ g6File = <<>> /\ polyPc = "idle"

\* the targets (vertices, edges) of the runs up to MaxTri triangles, and
\* of the run with MaxBigTri - 1 and MaxBigTri triangles
\* src/polyiamond_enum/enumerate.go 570-571: flags -v and -e
PolyTargets == {<<6, 9>>, <<7, 11>>, <<7, 12>>}
\* src/polyiamond_enum/enumerate.go 570-571: flags -v and -e of the large run
BigTarget == <<10, 19>>

\* main after flag.Parse, in the first call of enumeratePolyiamonds, at the
\* loop over size (a call with n = 1 returns the initial triangle, as the
\* loop that is not entered leaves it).  The triangle ranges are of one or
\* two sizes; the large run has one worker.
PolyInit ==
    /\ \/ /\ maxTri \in 1..MaxTri
          /\ minTri \in {x \in {maxTri - 1, maxTri} : x >= 1}
          /\ \E target \in PolyTargets : targetV = target[1] /\ targetE = target[2]
          /\ workers \in 1..MaxPolyWorkers
       \/ /\ maxTri = MaxBigTri
          /\ minTri = MaxBigTri - 1
          /\ targetV = BigTarget[1] /\ targetE = BigTarget[2]
          /\ workers = 1
    /\ nTri = minTri
    /\ polySize = 2
    /\ current = MapOf({canonicalize(initialPolyiamond)})
    /\ polyNext = {} /\ chunks = <<>> /\ pending = {}
    /\ allMatches = <<>> /\ g6File = <<>>
    /\ polyPc = "layer"

\* enumeratePolyiamonds: one round of the loop over size, up to the start
\* of the workers
PolyLayerStart ==
    /\ polyPc = "layer"
    /\ polySize <= nTri
    /\ \E shapes \in RangeOrders(MapValues(current)) :
          chunks' = chunksOf(shapes, workers)
    /\ pending' = DOMAIN chunks'
    /\ polyNext' = {}
    /\ polyPc' = "workers"
    /\ UNCHANGED <<minTri, maxTri, targetV, targetE, workers, nTri, polySize, current,
                   allMatches, g6File>>
    /\ UNCHANGED polyRest

\* a worker: localNext of its chunk, merged into next under mu
PolyWorker(w) ==
    /\ polyPc = "workers"
    /\ w \in pending
    /\ polyNext' = MapPutAll(polyNext, localNext(chunks[w]))
    /\ pending' = pending \ {w}
    /\ UNCHANGED <<minTri, maxTri, targetV, targetE, workers, nTri, polySize, current,
                   chunks, allMatches, g6File, polyPc>>
    /\ UNCHANGED polyRest

\* wg.Wait returns: current = next, the next size
PolyLayerEnd ==
    /\ polyPc = "workers"
    /\ pending = {}
    /\ current' = polyNext
    /\ polySize' = polySize + 1
    /\ polyPc' = "layer"
    /\ UNCHANGED <<minTri, maxTri, targetV, targetE, workers, nTri, polyNext, chunks,
                   pending, allMatches, g6File>>
    /\ UNCHANGED polyRest

\* enumeratePolyiamonds returns; main keeps the matching shapes and calls
\* it for the next nTri
PolyMatch ==
    /\ polyPc = "layer"
    /\ polySize > nTri
    /\ \E shapes \in RangeOrders({x \in MapValues(current) :
                                     polyiamondToGraph(x) = <<targetV, targetE>>}) :
          allMatches' = allMatches \o shapes
    /\ nTri' = nTri + 1
    /\ polySize' = 2
    /\ current' = MapOf({canonicalize(initialPolyiamond)})
    /\ polyPc' = IF nTri + 1 <= maxTri THEN "layer" ELSE "write"
    /\ UNCHANGED <<minTri, maxTri, targetV, targetE, workers, polyNext, chunks, pending, g6File>>
    /\ UNCHANGED polyRest

\* main: the g6 file
PolyWrite ==
    /\ polyPc = "write"
    /\ g6File' = [i \in DOMAIN allMatches |-> polyiamondToGraph6(allMatches[i])]
    /\ polyPc' = "done"
    /\ UNCHANGED <<minTri, maxTri, targetV, targetE, workers, nTri, polySize, current,
                   polyNext, chunks, pending, allMatches>>
    /\ UNCHANGED polyRest

\* src/polyiamond_enum/enumerate.go 200-623: main and enumeratePolyiamonds
PolyNext ==
    \/ PolyLayerStart
    \/ \E w \in pending : PolyWorker(w)
    \/ PolyLayerEnd
    \/ PolyMatch
    \/ PolyWrite

----------------------------------------------------------------------------
\* src/find_fourth/hex.go 39-50: buildSpiral called, the other programs not started
(***************************************************************************)
(* The candidate pipeline: generate walks the edge subsets, the candidates *)
(* are collected in batches, flushBatch hands each batch to the external   *)
(* shortg, and the unique files are merged and handed to shortg again.     *)
(* A file is [exists, lines]; shortgOk says whether shortg can be run.     *)
(***************************************************************************)
MaxPipeN == 4
MaxBatchSize == 3
defaultBatchSize == 10000000

\* src/unnamed/part_007 23-40: initEdges: numEdges
plNumEdges(n) == (n * (n - 1)) \div 2

\* src/unnamed/part_007 42-44: Graph.hasEdge (edgeIndex[i][i] is 0)
plHasEdge(n, gr, i, j) == (IF i = j THEN 0 ELSE fmEdgeIndex(n, i, j)) \in gr

\* src/unnamed/part_007 46-54: Graph.degree
plDegree(n, gr, v) == Cardinality({u \in 0..(n - 1) : u # v /\ plHasEdge(n, gr, v, u)})

\* src/unnamed/part_007 56-76: Graph.isConnected: the queue loop; visit adds
\* the unvisited neighbours of the head of the queue in increasing order
plIsConnected(n, gr) ==
    IF gr = {} THEN FALSE
    ELSE LET visit[u \in 0..n, from \in 0..(n - 1), st \in [queue : Seq(0..(n - 1)), visited : SUBSET (0..(n - 1))]] ==
                 IF u >= n THEN st
                 ELSE IF u \notin st.visited /\ plHasEdge(n, gr, from, u)
                      THEN visit[u + 1, from, [queue |-> Append(st.queue, u),
                                               visited |-> st.visited \cup {u}]]
                      ELSE visit[u + 1, from, st]
             loop[fuel \in 0..n, st \in [queue : Seq(0..(n - 1)), visited : SUBSET (0..(n - 1))]] ==
                 IF st.queue = <<>> \/ fuel = 0 THEN st.visited
                 ELSE loop[fuel - 1, visit[0, Head(st.queue), [st EXCEPT !.queue = Tail(st.queue)]]]
         IN  Cardinality(loop[n, [queue |-> <<0>>, visited |-> {0}]]) = n

\* src/unnamed/part_007 78-85: Graph.hasIsolatedVertex
plHasIsolatedVertex(n, gr) == \E v \in 0..(n - 1) : plDegree(n, gr, v) = 0

\* src/unnamed/part_007 87-96: Graph.maxDegree
plMaxDegree(n, gr) ==
    CHOOSE d \in 0..n : /\ \A v \in 0..(n - 1) : plDegree(n, gr, v) <= d
                        /\ d = 0 \/ \E v \in 0..(n - 1) : plDegree(n, gr, v) = d

\* src/unnamed/part_007 98-117: Graph.hasK4
plHasK4(n, gr) ==
    \E a, b, c, d \in 0..(n - 1) :
        /\ a < b /\ b < c /\ c < d
        /\ plHasEdge(n, gr, a, b) /\ plHasEdge(n, gr, a, c) /\ plHasEdge(n, gr, b, c)
        /\ plHasEdge(n, gr, a, d) /\ plHasEdge(n, gr, b, d) /\ plHasEdge(n, gr, c, d)

\* src/unnamed/part_007 129-149: Graph.toGraph6 (the text of filter_maximal's toGraph6)
plToGraph6(n, gr) == toGraph6(n, gr)

\* src/unnamed/part_007 166-173: minE and maxE with the flags -min and -max left at 0
minE(n) == n - 1
maxE(n) == 3 * n - 6

\* generate at edgeIdx == numEdges: the candidate filters
isCandidate(n, gr, ec) ==
    /\ ~(ec < minE(n) \/ ec > maxE(n))
    /\ ~plHasIsolatedVertex(n, gr)
    /\ ~(plMaxDegree(n, gr) > maxDegreeAllowed)
    /\ plIsConnected(n, gr)
    /\ ~plHasK4(n, gr)

\* a file that does not exist, and a file with lines
NoFile == [exists |-> FALSE, lines |-> <<>>]
FileOf(lines) == [exists |-> TRUE, lines |-> lines]

\* two graph6 lines of isomorphic graphs
g6Isomorphic(n, l1, l2) ==
    LET ga == parseGraph6(n, l1)
        gb == parseGraph6(n, l2)
    IN  \E perm \in allPerms(n) : fmRelabeled(n, ga, perm) = gb

\* a graph6 line as a number, to order lines
RECURSIVE LineValue(_)
LineValue(line) == IF line = <<>> THEN 0 ELSE 128 * LineValue(SubSeq(line, 1, Len(line) - 1)) + line[Len(line)]

\* a set of lines in increasing order
RECURSIVE SortedLines(_)
SortedLines(S) ==
    IF S = {} THEN <<>>
    ELSE LET lo == CHOOSE x \in S : \A y \in S : LineValue(x) <= LineValue(y)
         IN  <<lo>> \o SortedLines(S \ {lo})

\* shortg -q in out, by its contract: out holds one line per isomorphism
\* class of the lines of in
shortg(n, lines) ==
    SortedLines({l \in Range(lines) :
                    \A o \in Range(lines) : g6Isomorphic(n, l, o) => LineValue(l) <= LineValue(o)})

\* exec.Command("shortg", ...).Run() with its error dropped: the output
\* file is written only when shortg can be run
runShortg(ok, n, inFile) ==
    IF ok THEN FileOf(shortg(n, inFile.lines)) ELSE NoFile

\* flushBatch: the unique file it appends to batchFiles
flushBatch(ok, n, batch) == runShortg(ok, n, FileOf(batch))

\* the pipeline not started
PlIdle ==
    /\ plN = 0 /\ plBatchSize = 0 /\ shortgOk = FALSE /\ plStack = <<>>
    /\ currentBatch = <<>> /\ batchFiles = <<>> /\ plFinal = NoFile /\ plPc = "idle"

\* main up to generate(0, 0, 0)
PlInit ==
    /\ plN \in 2..MaxPipeN
    /\ plBatchSize \in (1..MaxBatchSize) \cup {defaultBatchSize}
    /\ shortgOk \in BOOLEAN
    /\ plStack = <<[edgeIdx |-> 0, gr |-> {}, edgeCount |-> 0, at |-> "enter"]>>
    /\ currentBatch = <<>> /\ batchFiles = <<>> /\ plFinal = NoFile
    /\ plPc = "generate"

PlTop == plStack[Len(plStack)]
PlPop == SubSeq(plStack, 1, Len(plStack) - 1)

\* generate entered: the two prunings
PlPruned ==
    \/ PlTop.edgeCount + (plNumEdges(plN) - PlTop.edgeIdx) < minE(plN)
    \/ PlTop.edgeCount > maxE(plN)

\* generate: a pruned call returns
PlPrune ==
    /\ plPc = "generate" /\ plStack # <<>> /\ PlTop.at = "enter"
    /\ PlPruned
    /\ plStack' = PlPop
    /\ UNCHANGED <<plN, plBatchSize, shortgOk, currentBatch, batchFiles, plFinal, plPc>>
    /\ UNCHANGED plRest

\* generate at edgeIdx == numEdges: filters, append to currentBatch, flush a full batch
PlLeaf ==
    /\ plPc = "generate" /\ plStack # <<>> /\ PlTop.at = "enter"
    /\ ~PlPruned
    /\ PlTop.edgeIdx = plNumEdges(plN)
    /\ IF isCandidate(plN, PlTop.gr, PlTop.edgeCount)
       THEN LET batch == Append(currentBatch, plToGraph6(plN, PlTop.gr))
            IN  IF Len(batch) >= plBatchSize
                THEN /\ currentBatch' = <<>>
                     /\ batchFiles' = Append(batchFiles, flushBatch(shortgOk, plN, batch))
                ELSE /\ currentBatch' = batch
                     /\ UNCHANGED batchFiles
       ELSE UNCHANGED <<currentBatch, batchFiles>>
    /\ plStack' = PlPop
    /\ UNCHANGED <<plN, plBatchSize, shortgOk, plFinal, plPc>>
    /\ UNCHANGED plRest

\* generate: the call without the edge edgeIdx
PlWithout ==
    /\ plPc = "generate" /\ plStack # <<>> /\ PlTop.at = "enter"
    /\ ~PlPruned
    /\ PlTop.edgeIdx < plNumEdges(plN)
    /\ plStack' = Append([plStack EXCEPT ![Len(plStack)].at = "without"],
                         [edgeIdx |-> PlTop.edgeIdx + 1, gr |-> PlTop.gr,
                          edgeCount |-> PlTop.edgeCount, at |-> "enter"])
    /\ UNCHANGED <<plN, plBatchSize, shortgOk, currentBatch, batchFiles, plFinal, plPc>>
    /\ UNCHANGED plRest

\* generate: the call with the edge edgeIdx
PlWith ==
    /\ plPc = "generate" /\ plStack # <<>> /\ PlTop.at = "without"
    /\ plStack' = Append([plStack EXCEPT ![Len(plStack)].at = "with"],
                         [edgeIdx |-> PlTop.edgeIdx + 1, gr |-> PlTop.gr \cup {PlTop.edgeIdx},
                          edgeCount |-> PlTop.edgeCount + 1, at |-> "enter"])
    /\ UNCHANGED <<plN, plBatchSize, shortgOk, currentBatch, batchFiles, plFinal, plPc>>
    /\ UNCHANGED plRest

\* generate returns after its two calls
PlReturn ==
    /\ plPc = "generate" /\ plStack # <<>> /\ PlTop.at = "with"
    /\ plStack' = PlPop
    /\ UNCHANGED <<plN, plBatchSize, shortgOk, currentBatch, batchFiles, plFinal, plPc>>
    /\ UNCHANGED plRest

\* main: flush the remaining batch
PlFlushRest ==
    /\ plPc = "generate" /\ plStack = <<>>
    /\ IF Len(currentBatch) > 0
       THEN /\ batchFiles' = Append(batchFiles, flushBatch(shortgOk, plN, currentBatch))
            /\ currentBatch' = <<>>
       ELSE UNCHANGED <<currentBatch, batchFiles>>
    /\ plPc' = "phase2"
    /\ UNCHANGED <<plN, plBatchSize, shortgOk, plStack, plFinal>>
    /\ UNCHANGED plRest

\* the lines a scanner reads from a file (none when os.Open failed)
RECURSIVE mergedLines(_)
mergedLines(files) ==
    IF files = <<>> THEN <<>>
    ELSE (IF Head(files).exists THEN Head(files).lines ELSE <<>>) \o mergedLines(Tail(files))

\* main, phase 2 with more than one batch: merge and the final shortg
PlMerge ==
    /\ plPc = "phase2" /\ Len(batchFiles) > 1
    /\ plFinal' = runShortg(shortgOk, plN, FileOf(mergedLines(batchFiles)))
    /\ plPc' = "done"
    /\ UNCHANGED <<plN, plBatchSize, shortgOk, plStack, currentBatch, batchFiles>>
    /\ UNCHANGED plRest

\* main, phase 2 with one batch: os.Rename of its unique file
PlRename ==
    /\ plPc = "phase2" /\ Len(batchFiles) = 1
    /\ plFinal' = batchFiles[1]
    /\ plPc' = "done"
    /\ UNCHANGED <<plN, plBatchSize, shortgOk, plStack, currentBatch, batchFiles>>
    /\ UNCHANGED plRest

\* main, phase 2 without any batch
PlNothing ==
    /\ plPc = "phase2" /\ Len(batchFiles) = 0
    /\ plPc' = "done"
    /\ UNCHANGED <<plN, plBatchSize, shortgOk, plStack, currentBatch, batchFiles, plFinal>>
    /\ UNCHANGED plRest

PlNext ==
    \/ PlPrune
    \/ PlLeaf
    \/ PlWithout
    \/ PlWith
    \/ PlReturn
    \/ PlFlushRest
    \/ PlMerge
    \/ PlRename
    \/ PlNothing

----------------------------------------------------------------------------
(***************************************************************************)
(* isPennyGraph.  Coordinates are in thousandths and squared distances in  *)
(* millionths: |dist - 1| > 0.001 is dist^2 outside 0.999^2 .. 1.001^2,    *)
(* and dist <= 1.001 is dist^2 <= 1.001^2.  What the random start and the  *)
(* gradient descent of a restart leave in pos is any assignment of points  *)
(* of a grid to the vertices.                                              *)
(***************************************************************************)
MaxPennyN == 3
maxAttempts == 20
edgeLow2 == 998001
edgeHigh2 == 1002001

\* coordinates around the two thresholds
GridXs == {0, 999, 1000, 1001, 1002}
GridYs == {0, 1000}

\* src/unnamed/part_006 61-69: Graph.edges
pnEdges(n, gr) == {fmEdgePairs(n)[idx] : idx \in {x \in 0..((n * (n - 1)) \div 2 - 1) : x \in gr}}

\* src/unnamed/part_006 102-108: isPennyGraph: nonEdges
pnNonEdges(n, gr) == {fmEdgePairs(n)[idx] : idx \in {x \in 0..((n * (n - 1)) \div 2 - 1) : x \notin gr}}

\* src/unnamed/part_006 185-189: dx*dx + dy*dy of a vertex pair
dist2(at, e) ==
    (at[e[2]][1] - at[e[1]][1]) * (at[e[2]][1] - at[e[1]][1])
      + (at[e[2]][2] - at[e[1]][2]) * (at[e[2]][2] - at[e[1]][2])

\* the second verification loop with the threshold 1.0 in place of 1.001
nonEdgesValidAtOne(n, gr, at) ==
    \A e \in pnNonEdges(n, gr) : ~(dist2(at, e) <= 1000000)

\* src/unnamed/part_006 184-194: isPennyGraph: verification of the edges
edgesValid(n, gr, at) ==
    \A e \in pnEdges(n, gr) : ~(dist2(at, e) < edgeLow2 \/ dist2(at, e) > edgeHigh2)

\* src/unnamed/part_006 195-206: isPennyGraph: verification of the non-edges
nonEdgesValid(n, gr, at) ==
    \A e \in pnNonEdges(n, gr) : ~(dist2(at, e) <= edgeHigh2)

\* src/unnamed/part_006 96-100: isPennyGraph not called
PnIdle ==
    /\ pnN = 0 /\ pnG = {} /\ pnAttempt = 0 /\ pnPos = <<>> /\ pnResult = FALSE /\ pnPc = "idle"

\* src/unnamed/part_006 96-97: isPennyGraph called on a graph of n vertices
PnInit ==
    /\ pnN \in 2..MaxPennyN
    /\ pnG \in SUBSET (0..((pnN * (pnN - 1)) \div 2 - 1))
    /\ pnAttempt = 0 /\ pnPos = <<>> /\ pnResult = FALSE
    /\ pnPc = "start"

\* isPennyGraph: no edge, return false; else the loop over the restarts
PnStart ==
    /\ pnPc = "start"
    /\ IF pnEdges(pnN, pnG) = {} THEN pnPc' = "done" ELSE pnPc' = "attempt"
    /\ UNCHANGED <<pnN, pnG, pnAttempt, pnPos, pnResult>>
    /\ UNCHANGED pnRest

\* one restart: random start and gradient descent
PnDescend ==
    /\ pnPc = "attempt"
    /\ pnAttempt < maxAttempts
    /\ pnPos' \in [0..(pnN - 1) -> GridXs \X GridYs]
    /\ pnPc' = "verify"
    /\ UNCHANGED <<pnN, pnG, pnAttempt, pnResult>>
    /\ UNCHANGED pnRest

\* one restart: verify the solution, return true or go to the next restart
\* (pos is allocated anew by every restart)
PnVerify ==
    /\ pnPc = "verify"
    /\ IF edgesValid(pnN, pnG, pnPos) /\ nonEdgesValid(pnN, pnG, pnPos)
       THEN pnResult' = TRUE /\ pnPc' = "done" /\ UNCHANGED <<pnAttempt, pnPos>>
       ELSE pnAttempt' = pnAttempt + 1 /\ pnPc' = "attempt" /\ pnPos' = <<>> /\ UNCHANGED pnResult
    /\ UNCHANGED <<pnN, pnG>>
    /\ UNCHANGED pnRest

\* all restarts failed: return false
PnGiveUp ==
    /\ pnPc = "attempt"
    /\ pnAttempt >= maxAttempts
    /\ pnPc' = "done"
    /\ UNCHANGED <<pnN, pnG, pnAttempt, pnPos, pnResult>>
    /\ UNCHANGED pnRest

PnNext ==
    \/ PnStart
    \/ PnDescend
    \/ PnVerify
    \/ PnGiveUp

----------------------------------------------------------------------------
InitSpiral == SpiralInit /\ SolverIdle /\ S13Idle /\ N7Idle /\ FFIdle /\ SatIdle /\ CanonIdle /\ FpIdle /\ FmIdle /\ G6Idle /\ GenIdle /\ PolyIdle /\ PlIdle /\ PnIdle
\* src/find_fourth/hex.go 39-96: buildSpiral
SpecSpiral == InitSpiral /\ [][SpiralNext]_vars

\* src/solver_20/solver.go 535-581: NewSolver done, the other programs not started
InitSolver == SolverInit /\ SpiralIdle /\ S13Idle /\ N7Idle /\ FFIdle /\ SatIdle /\ CanonIdle /\ FpIdle /\ FmIdle /\ G6Idle /\ GenIdle /\ PolyIdle /\ PlIdle /\ PnIdle
\* src/solver_20/solver.go 442-783: general solver (n=20 solver: 1-440)
SpecSolver == InitSolver /\ [][SolverNext]_vars

\* src/mathematica/prove_n13_needs_4_v2.m 780-795: n=7 check started, the other programs not started
InitN7 == N7Init /\ SpiralIdle /\ SolverIdle /\ S13Idle /\ FFIdle /\ SatIdle /\ CanonIdle /\ FpIdle /\ FmIdle /\ G6Idle /\ GenIdle /\ PolyIdle /\ PlIdle /\ PnIdle
\* src/mathematica/prove_n13_needs_4_v2.m 787-822: exhaustive n=7 check
SpecN7 == InitN7 /\ [][N7Next]_vars

\* src/find_fourth/main.go 33-117: find_fourth main started, the other programs not started
InitFF == FFInit /\ SpiralIdle /\ SolverIdle /\ S13Idle /\ N7Idle /\ SatIdle /\ CanonIdle /\ FpIdle /\ FmIdle /\ G6Idle /\ GenIdle /\ PolyIdle /\ PlIdle /\ PnIdle
\* src/find_fourth/main.go 33-264: main
SpecFF == InitFF /\ [][FFNext]_vars
InitFFMalformed == FFInitMalformed /\ SpiralIdle /\ SolverIdle /\ S13Idle /\ N7Idle /\ SatIdle /\ CanonIdle /\ FpIdle /\ FmIdle /\ G6Idle /\ GenIdle /\ PolyIdle /\ PlIdle /\ PnIdle
SpecFFMalformed == InitFFMalformed /\ [][FFNext]_vars

\* src/solver_k/solver_13_3.go 228-256: solver_13_3 main started, the other programs not started
Init13 == S13Init /\ SpiralIdle /\ SolverIdle /\ N7Idle /\ FFIdle /\ SatIdle /\ CanonIdle /\ FpIdle /\ FmIdle /\ G6Idle /\ GenIdle /\ PolyIdle /\ PlIdle /\ PnIdle
\* src/solver_k/solver_13_3.go 228-309: main
Spec13 == Init13 /\ [][S13Next]_vars

\* src/find_fourth/main.go 266-273: solveSAT called, the other programs not started
InitSat == SatInit /\ SpiralIdle /\ SolverIdle /\ S13Idle /\ N7Idle /\ FFIdle /\ CanonIdle /\ FpIdle /\ FmIdle /\ G6Idle /\ GenIdle /\ PolyIdle /\ PlIdle /\ PnIdle
\* src/find_fourth/main.go 266-362: solveSAT
SpecSat == InitSat /\ [][SatNext]_vars

\* src/canonicalize.go 116-157: canonicalize started, the other programs not started
InitCanon == CanonInit /\ SpiralIdle /\ SolverIdle /\ S13Idle /\ N7Idle /\ FFIdle /\ SatIdle /\ FpIdle /\ FmIdle /\ G6Idle /\ GenIdle /\ PolyIdle /\ PlIdle /\ PnIdle
\* src/canonicalize.go 80-246: canonicalize main
SpecCanon == InitCanon /\ [][CanonNext]_vars

\* src/unnamed/part_009 109-142: refine_hash main, the other programs not running
InitFp == FpInit /\ SpiralIdle /\ SolverIdle /\ S13Idle /\ N7Idle /\ FFIdle /\ SatIdle /\ CanonIdle /\ FmIdle /\ G6Idle /\ GenIdle /\ PolyIdle /\ PlIdle /\ PnIdle
\* src/unnamed/part_009 109-213: refine_hash and wl_refine
SpecFp == InitFp /\ [][FpNext]_vars

\* src/filter_maximal.go 155-168: main start, the other programs not running
InitFm == FmInit /\ SpiralIdle /\ SolverIdle /\ S13Idle /\ N7Idle /\ FFIdle /\ SatIdle /\ CanonIdle /\ FpIdle /\ G6Idle /\ GenIdle /\ PolyIdle /\ PlIdle /\ PnIdle
\* src/filter_maximal.go 155-245: filter_maximal
SpecFm == InitFm /\ [][FmNext]_vars
InitFmMalformed == FmInitMalformed /\ SpiralIdle /\ SolverIdle /\ S13Idle /\ N7Idle /\ FFIdle /\ SatIdle /\ CanonIdle /\ FpIdle /\ G6Idle /\ GenIdle /\ PolyIdle /\ PlIdle /\ PnIdle
SpecFmMalformed == InitFmMalformed /\ [][FmNext]_vars

\* src/filter_maximal.go 155-166: round trip start, the programs not running
InitG6 == G6Init /\ SpiralIdle /\ SolverIdle /\ S13Idle /\ N7Idle /\ FFIdle /\ SatIdle /\ CanonIdle /\ FpIdle /\ FmIdle /\ GenIdle /\ PolyIdle /\ PlIdle /\ PnIdle
\* src/filter_maximal.go 102-153: graph6 round trip
SpecG6 == InitG6 /\ [][G6Next]_vars

\* src/penny_enum/generate_edges.go 128-193: generate_edges start, the other programs not running
InitGen == GenInit /\ SpiralIdle /\ SolverIdle /\ S13Idle /\ N7Idle /\ FFIdle /\ SatIdle /\ CanonIdle /\ FpIdle /\ FmIdle /\ G6Idle /\ PolyIdle /\ PlIdle /\ PnIdle
\* src/penny_enum/generate_edges.go 118-204: generate_edges
SpecGen == InitGen /\ [][GenNext]_vars

\* src/polyiamond_enum/enumerate.go 567-590: polyiamond_enum start, the other programs not running
InitPoly == PolyInit /\ SpiralIdle /\ SolverIdle /\ S13Idle /\ N7Idle /\ FFIdle /\ SatIdle /\ CanonIdle /\ FpIdle /\ FmIdle /\ G6Idle /\ GenIdle /\ PlIdle /\ PnIdle
\* src/polyiamond_enum/enumerate.go 200-623: polyiamond_enum
SpecPoly == InitPoly /\ [][PolyNext]_vars

InitPl == PlInit /\ SpiralIdle /\ SolverIdle /\ S13Idle /\ N7Idle /\ FFIdle /\ SatIdle /\ CanonIdle /\ FpIdle /\ FmIdle /\ G6Idle /\ GenIdle /\ PolyIdle /\ PnIdle
SpecPl == InitPl /\ [][PlNext]_vars

InitPn == PnInit /\ SpiralIdle /\ SolverIdle /\ S13Idle /\ N7Idle /\ FFIdle /\ SatIdle /\ CanonIdle /\ FpIdle /\ FmIdle /\ G6Idle /\ GenIdle /\ PolyIdle /\ PlIdle
SpecPn == InitPn /\ [][PnNext]_vars

\* the three backtracking solvers, one of them running
\* src/solver_20/solver.go 719-752: one of the solvers constructed
Init ==
    /\ \/ SolverInit /\ S13Idle
       \/ SolverIdle /\ S13Init
    /\ SpiralIdle /\ N7Idle /\ FFIdle /\ SatIdle /\ CanonIdle /\ FpIdle /\ FmIdle /\ G6Idle /\ GenIdle /\ PolyIdle /\ PlIdle /\ PnIdle

\* src/solver_20/solver.go 719-752: a step of the running solver
Next == SolverNext \/ S13Next

\* src/solver_20/solver.go 719-752: Solve of both solvers; solver_13_3 main
Spec == Init /\ [][Next]_vars

(***************************************************************************)
(* find_fourth or solver_13_3 under fair scheduling: every goroutine that  *)
(* can take a step (main, the collector, each worker) takes one in the     *)
(* end.                                                                    *)
(***************************************************************************)
InitFair ==
    /\ \/ FFInit /\ S13Idle
       \/ FFIdle /\ S13InitIn(FairFamilies)
    /\ SpiralIdle /\ SolverIdle /\ N7Idle /\ SatIdle /\ CanonIdle /\ FpIdle /\ FmIdle /\ G6Idle /\ GenIdle /\ PolyIdle /\ PlIdle /\ PnIdle

NextFair == FFNext \/ S13Next

\* the goroutines of find_fourth
FFMainStep == FFLoopHead \/ FFPut \/ FFCloseResults \/ FFFinish

FFCollectorStep == FFCollect \/ FFCollectorExit

FFWorkerStep(w) ==
    /\ w \in DOMAIN fw
    /\ (FFRecv(w) \/ FFWorkerExit(w) \/ FFExamine(w) \/ FFSend(w) \/ FFStore(w))

\* the goroutines of solver_13_3
Main13Step == Launch13 \/ Join13 \/ Report13

Worker13Step(fi) ==
    /\ fi \in DOMAIN w13
    /\ (RunSearch(fi) \/ Abort13(fi) \/ CasSend(fi) \/ SendCount(fi))

Fairness ==
    /\ WF_vars(FFMainStep)
    /\ WF_vars(FFCollectorStep)
    /\ \A w \in 1..MaxFFWorkers : WF_vars(FFWorkerStep(w))
    /\ WF_vars(Main13Step)
    /\ \A fi \in UNION {0..(f.n - 1) : f \in FairFamilies} : WF_vars(Worker13Step(fi))

SpecFair == InitFair /\ [][NextFair]_vars /\ Fairness

(***************************************************************************)
(* C1: whenever a solver reports a witness (Solve returns true; a Solution *)
(* is sent by solver_13_3), every reported arrangement is a permutation of *)
(* 0..n-1, a0 is the identity, and the pair-sets the arrangements induce   *)
(* on their graphs together are all C(n,2) item pairs.                     *)
(***************************************************************************)
SolutionCovers(f, sol) ==
    /\ IsPermutation(sol.arr1, f.n)
    /\ IsPermutation(sol.arr2, f.n)
    /\ InducedPairs(f.n, f.graphs[sol.shape0 + 1], Identity(f.n)) \cup
       InducedPairs(f.n, f.graphs[sol.shape1 + 1], sol.arr1) \cup
       InducedPairs(f.n, f.graphs[sol.shape2 + 1], sol.arr2) = AllPairs(f.n)

WitnessCoversAllPairs ==
    /\ result = "true" =>
          /\ \A i \in 1..s.k : IsPermutation(solution[i], s.n)
          /\ solution[1] = Identity(s.n)
          /\ CoveredBy(s.n, s.edges, solution) = AllPairs(s.n)
    /\ \A i \in DOMAIN resultChan : SolutionCovers(fam, resultChan[i])
    /\ main13 = "found" => SolutionCovers(fam, sol13)

\* a witness has been reported by a search: Solve returned true after its
\* workers ran, with more than one arrangement, or main received a Solution
WitnessReported ==
    /\ result = "true" /\ found = 1
    /\ s.variant = "n20" /\ s.k = 3 /\ s.n >= 5

(***************************************************************************)
(* Reference decisions, by exhaustion over all arrangements.               *)
(***************************************************************************)
Perms(n) == PermSeqs(0..(n - 1))

\* some `more` arrangements on the graph cover what covered leaves open
RECURSIVE CanCover(_, _, _, _, _)
CanCover(n, edges, P, more, covered) ==
    IF more = 0 THEN covered = AllPairs(n)
    ELSE \E a \in P : CanCover(n, edges, P, more - 1, covered \cup InducedPairs(n, edges, a))

\* the edges of arrangement a whose pair is covered already
OverlapOf(n, edges, a, covered) ==
    Cardinality({i \in DOMAIN edges :
                    pairIndex(n, a[edges[i][1] + 1], a[edges[i][2] + 1]) \in covered})

\* some arrangements for the levels from level on, each within the overlap
\* limit of its level, cover what covered leaves open
RECURSIVE CappedCover(_, _, _, _)
CappedCover(sv, P, level, covered) ==
    IF level >= sv.k - 1 THEN covered = AllPairs(sv.n)
    ELSE \E a \in P :
            /\ OverlapOf(sv.n, sv.edges, a, covered)
                   <= maxOverlapOf(sv, level, sv.numPairs - Cardinality(covered))
            /\ CappedCover(sv, P, level + 1, covered \cup InducedPairs(sv.n, sv.edges, a))

(***************************************************************************)
(* C2: the general solver, with its default overlap limits and one or more *)
(* workers, returns true from Solve(n, k) exactly when k arrangements with *)
(* a0 = identity covering all pairs exist on the spiral: the overlap       *)
(* limits, the remEdges bound and the doomed-pair check lose no cover.     *)
(***************************************************************************)
SolveTrueIffCoverExists ==
    (s.variant = "general" /\ result \in {"true", "false"}) =>
        ((result = "true") <=>
            CanCover(s.n, s.edges, Perms(s.n), s.k - 1,
                     InducedPairs(s.n, s.edges, Identity(s.n))))

\* a search of the general solver that went through every branch: no cover
SearchExhausted ==
    /\ s.variant = "general" /\ s.n = 7 /\ s.k = 2 /\ result = "false"
    /\ \A w \in DOMAIN wk : wk[w].pc = "done"

(***************************************************************************)
(* C6: the general solver answers YES for n = 3, k = 1, finds no solution  *)
(* for n = 7, k = 2 and finds a solution for n = 7, k = 3.                 *)
(***************************************************************************)
SmallCaseAnswers ==
    (s.variant = "general" /\ result \in {"true", "false"}) =>
        /\ (s.n = 3 /\ s.k = 1) => result = "true"
        /\ (s.n = 7 /\ s.k = 2) => result = "false"
        /\ (s.n = 7 /\ s.k = 3) => result = "true"

SevenThreeSolved ==
    s.variant = "general" /\ s.n = 7 /\ s.k = 3 /\ result = "true" /\ found = 1

(***************************************************************************)
(* C8: the witness record is written once.  In the general and the n=20    *)
(* solver each of solution[1..k-1] is assigned at most once, all of them   *)
(* by one worker, and once found is set each has been assigned and is not  *)
(* assigned again; solver_13_3 sends at most one Solution on resultChan.   *)
(* (writes[i+1] lists the writers of solution[i] in the order they wrote,  *)
(* 0 being Solve itself; sent counts the sends.)                           *)
(***************************************************************************)
WitnessWrittenOnce ==
    /\ \A i \in DOMAIN writes : Len(writes[i]) <= 1
    /\ \A i, j \in (DOMAIN writes) \ {1} :
          (writes[i] # <<>> /\ writes[j] # <<>>) => writes[i] = writes[j]
    /\ found = 1 => \A i \in (DOMAIN writes) \ {1} :
                      Len(writes[i]) = 1 /\ solution[i] # <<>>
    /\ sent <= 1

\* a second worker reached its own complete cover and found the flag set
\* under the mutex
SecondFinderDropped ==
    \E w \in DOMAIN wk :
        /\ wk[w].pc = "unlock" /\ mu = w /\ found = 1
        /\ s.k >= 2 /\ writes[2] # <<w>>

(***************************************************************************)
(* C9: the boolean Solve returns is a function of the instance (n, k and,  *)
(* for the n=20 solver, the overlap limits): whatever the item orders of   *)
(* the workers, their number and their interleaving, it is true exactly    *)
(* when arrangements within the overlap limits cover all pairs.            *)
(***************************************************************************)
DecisionOf(sv) ==
    IF sv.variant = "general" /\ sv.k = 1
    THEN InducedPairs(sv.n, sv.edges, Identity(sv.n)) = AllPairs(sv.n)
    ELSE CappedCover(sv, Perms(sv.n), 0, InducedPairs(sv.n, sv.edges, Identity(sv.n)))

DecisionIsDeterministic ==
    result \in {"true", "false"} => ((result = "true") <=> DecisionOf(s))

\* two workers with their own item orders have run and Solve has returned
TwoWorkersReturned ==
    /\ result \in {"true", "false"}
    /\ s.numWorkers = 2 /\ s.k >= 2
    /\ \A w \in DOMAIN wk : wk[w].pc = "done"
(***************************************************************************)
(* C4: when solver_13_3 ends without a witness, no three arrangements on   *)
(* any ordered triple of its graphs cover all pairs: taking only           *)
(* shape0 <= shape1 <= shape2, a0 = identity, an a1 without overlap with   *)
(* a0 and an a2 without a wasted edge excludes no cover.  The reference    *)
(* ranges over every ordered triple of shapes and all a1, a2, and over     *)
(* every a0 for numItems <= MaxFreeArr0N (a0 = identity above that); it    *)
(* asks only that the three pair-sets together are all pairs.              *)
(***************************************************************************)
MaxFreeArr0N == 4

FamilyCoverExists(f) ==
    LET P == Perms(f.n)
        shapes == 0..(NumShapes - 1)
        pairsOf(sh, a) == InducedPairs(f.n, f.graphs[sh + 1], a)
        \* an arrangement covers no more pairs than its graph has edges
        thirdCovers(open) ==
            \E sh2 \in shapes :
                /\ Cardinality(open) <= Len(f.graphs[sh2 + 1])
                /\ \E a2 \in P : open \subseteq pairsOf(sh2, a2)
    IN  \E sh0 \in shapes :
          \E a0 \in (IF f.n <= MaxFreeArr0N THEN P ELSE {Identity(f.n)}) :
            \E sh1 \in shapes : \E a1 \in P :
                thirdCovers(AllPairs(f.n) \ (pairsOf(sh0, a0) \cup pairsOf(sh1, a1)))

NoWitnessMeansNoCover ==
    main13 = "none" => ~FamilyCoverExists(fam)

\* main went through every shape pair and reports that there is no solution
AllShapePairsSearched ==
    main13 = "none" /\ fam.n = 6 /\ shape0 = NumShapes /\ ~found13
(***************************************************************************)
(* C5: on the spiral buildSpiral(n) returns, the documented witnesses      *)
(* cover every item pair: the four arrangements for n = 15 all 105 pairs,  *)
(* the four for n = 17 all 136 pairs, the five for n = 19 all 171 pairs.   *)
(***************************************************************************)
Witness15 == <<
    <<0, 1, 2, 3, 4, 5, 6, 7, 8, 9, 10, 11, 12, 13, 14>>,
    <<4, 11, 7, 10, 6, 12, 1, 5, 14, 0, 9, 3, 8, 13, 2>>,
    <<12, 14, 9, 5, 8, 0, 10, 1, 3, 6, 11, 13, 7, 2, 4>>,
    <<8, 14, 11, 3, 5, 6, 7, 12, 2, 1, 13, 0, 9, 4, 10>> >>

Witness17 == <<
    <<0, 1, 2, 3, 4, 5, 6, 7, 8, 9, 10, 11, 12, 13, 14, 15, 16>>,
    <<0, 8, 15, 9, 16, 12, 10, 5, 13, 2, 6, 3, 7, 14, 11, 1, 4>>,
    <<10, 13, 16, 6, 14, 1, 15, 11, 0, 7, 2, 4, 9, 12, 8, 3, 5>>,
    <<11, 4, 7, 5, 9, 6, 8, 16, 3, 10, 15, 12, 2, 14, 0, 13, 1>> >>

Witness19 == <<
    <<0, 1, 2, 3, 4, 5, 6, 7, 8, 9, 10, 11, 12, 13, 14, 15, 16, 17, 18>>,
    <<8, 16, 2, 5, 13, 15, 10, 14, 0, 7, 4, 12, 9, 18, 1, 11, 17, 3, 6>>,
    <<4, 18, 10, 17, 1, 16, 11, 0, 15, 12, 7, 13, 2, 14, 5, 3, 9, 6, 8>>,
    <<1, 10, 12, 18, 2, 15, 7, 5, 0, 17, 8, 14, 3, 16, 13, 6, 4, 9, 11>>,
    <<15, 0, 16, 18, 8, 17, 9, 13, 5, 12, 6, 1, 10, 2, 4, 3, 7, 14, 11>> >>

IsWitness(n, edges, arrs, pairs) ==
    /\ \A i \in DOMAIN arrs : IsPermutation(arrs[i], n)
    /\ arrs[1] = Identity(n)
    /\ CoveredBy(n, edges, arrs) = AllPairs(n)
    /\ Cardinality(CoveredBy(n, edges, arrs)) = pairs

DocumentedWitnessesCover ==
    node = spN =>
        /\ spN = 15 => IsWitness(15, spEdges, Witness15, 105)
        /\ spN = 17 => IsWitness(17, spEdges, Witness17, 136)
        /\ spN = 19 => IsWitness(19, spEdges, Witness19, 171)

\* buildSpiral(19) has returned
Spiral19Built ==
    spN = 19 /\ node = 19 /\ Len(positions) = 19
(***************************************************************************)
(* C7: for every ordered pair (g1, g2) of the four maximal penny graphs on *)
(* 7 vertices and every one of the 5040 permutations on g2, the identity   *)
(* on g1 and that permutation on g2 together cover fewer than 21 pairs.    *)
(***************************************************************************)
TwoArrangementsCoverLessThan21 ==
    /\ ~foundSolution
    /\ (g1 \in 1..Len(fmAllGraphs) /\ g2 \in 1..Len(fmAllGraphs) /\ p \in 1..numArrangements)
          => Cardinality(combinedPairs(g1, g2, p)) < 21

\* the three loops have run to their ends: all 4 * 4 * 5040 checks were made
AllCombinationsChecked ==
    /\ g1 > Len(fmAllGraphs) /\ ~foundSolution
    /\ checksPerformed = 4 * 4 * 5040
(***************************************************************************)
(* C10: in find_fourth, for any number of workers and any interleaving,    *)
(* once one candidate has been reported as a solution no other candidate's *)
(* result with found set is published: at most one such result reaches the *)
(* collector, and it is the one kept as foundResult.                       *)
(***************************************************************************)
OneSolutionReachesCollector ==
    /\ Len(collected) <= 1
    /\ collected # <<>> => foundResult.index = collected[1]

\* two workers, each with a candidate a fourth arrangement completes, have
\* both sent their result and the collector has received both
TwoSolutionsCollected ==
    /\ Len(fw) = 2
    /\ Len(collected) = 2
    /\ foundResult.index = collected[2]

(***************************************************************************)
(* C11: the CNF built by solveSAT is satisfiable exactly when some         *)
(* bijection of items to slots puts every uncovered pair on adjacent       *)
(* slots, and the arr3 decoded from any satisfying model is a permutation  *)
(* of 0..n-1 under which every uncovered pair is adjacent.                 *)
(***************************************************************************)
CnfDecidesFourthArrangement ==
    LET n == satN
        slotOf(arr, item) == CHOOSE slot \in 0..(n - 1) : arr[slot + 1] = item
        puts(arr) == \A i \in DOMAIN satPairs :
                        <<slotOf(arr, satPairs[i][1]), slotOf(arr, satPairs[i][2])>> \in satAdj
    IN  /\ status = "Sat" => \E arr \in PermSeqs(0..(n - 1)) : puts(arr)
        /\ status = "Unsat" => ~ \E arr \in PermSeqs(0..(n - 1)) : puts(arr)
        /\ (satPc = "done" /\ status = "Sat") =>
              /\ IsPermutation(arr3, n)
              /\ puts(arr3)

\* a model of a problem with two uncovered pairs on three slots was decoded
TwoPairsDecoded ==
    /\ satPc = "done" /\ status = "Sat" /\ satN = 3 /\ Len(satPairs) = 2

(***************************************************************************)
(* C12: the exhaustive canonical form is a complete isomorphism invariant  *)
(* (canonical(G) = canonical(H) exactly when G and H are isomorphic; it is *)
(* idempotent and the same for every relabeling of G), and the             *)
(* canonicalize stage outputs exactly one graph per isomorphism class of   *)
(* its input, however the input was grouped.                               *)
(***************************************************************************)
EdgeSetOf(n, g) ==
    {{edgePairs(n)[idx + 1][1], edgePairs(n)[idx + 1][2]} :
        idx \in {x \in 0..(Len(edgePairs(n)) - 1) : HasBit(g, x)}}

Isomorphic(n, g, h) ==
    \E pi \in PermSeqs(0..(n - 1)) :
        {{pi[v + 1] : v \in e} : e \in EdgeSetOf(n, g)} = EdgeSetOf(n, h)

InputGraphs == UNION {Range(canonGroups[i]) : i \in DOMAIN canonGroups}

SameGroup(file, g, h) == \E i \in DOMAIN file : g \in Range(file[i]) /\ h \in Range(file[i])

FingerprintsAreRelabelingInvariant ==
    /\ fpPc \in {"wl", "done"} =>
          \A g \in Range(fpInput), h \in Range(fpInput) :
              Isomorphic(fpN, g, h) => SameGroup(fpFile, g, h)
    /\ fpPc = "done" =>
          \A g \in Range(fpInput), h \in Range(fpInput) :
              Isomorphic(fpN, g, h) => SameGroup(wlResults, g, h)

\* a graph and one of its relabelings, in one fingerprint group, were put
\* in two WL groups
RelabelingSplitByWl ==
    /\ fpPc = "done"
    /\ Len(fpFile) = 1
    /\ Len(wlResults) = 2

(***************************************************************************)
(* C14: the output of filter_maximal is exactly the set of maximal classes *)
(* of its input pool: no output graph is isomorphic to a subgraph of a     *)
(* different output graph, and every input graph that is not output is     *)
(* isomorphic to a subgraph of some output graph.  The pool is a pool of   *)
(* penny graphs: each has an edge.                                         *)
(***************************************************************************)
\* the edges of a mask, as sets of two vertices
FmEdgeSet(n, g) == {{fmEdgePairs(n)[idx][1], fmEdgePairs(n)[idx][2]} : idx \in g}

\* some relabeling of g has all its edges in h
SubIso(n, g, h) ==
    \E pi \in [0..(n - 1) -> 0..(n - 1)] :
        /\ \A a, b \in 0..(n - 1) : a # b => pi[a] # pi[b]
        /\ \A e \in FmEdgeSet(n, g) : {pi[v] : v \in e} \in FmEdgeSet(n, h)

\* the graphs of the input pool: the lines for fmN vertices
FmPool == {g \in FmGraphs(fmN) : g # {} /\ toGraph6(fmN, g) \in Range(fmLines)}

G6EdgesOf(n, g) == {e \in VertexPairs(n) : g \cap Shl1(fmEdgeIndex(n, e[1], e[2])) # {}}

Graph6RoundTrip ==
    g6Pc = "done" => G6EdgesOf(g6N, g6Back) = g6Edges

\* the round trip of the graphs all of whose edge indices are below the
\* width of Graph
Graph6RoundTripWithinWidth ==
    (g6Pc = "done" /\ \A e \in g6Edges : fmEdgeIndex(g6N, e[1], e[2]) < GraphWidth)
        => G6EdgesOf(g6N, g6Back) = g6Edges

\* twelve vertices: the edge 10-11 has index 65 and is not read back
EdgeBeyondWidthLost ==
    /\ g6Pc = "done"
    /\ g6N = 12
    /\ g6Edges = {<<10, 11>>}
    /\ g6Back = {}

(***************************************************************************)
(* C16: generate_edges run with (n, m) writes, each exactly once and in    *)
(* lexicographic order of their edge-id subsets, precisely the graphs on n *)
(* vertices with exactly m edges that have no isolated vertex, maximum     *)
(* degree <= 6, are connected and contain no K4, and writes nothing else.  *)
(***************************************************************************)
\* the tests on a set of edge ids, by the edges as vertex pairs
IsCandidate(n, S) ==
    LET E == {{fmEdgePairs(n)[idx][1], fmEdgePairs(n)[idx][2]} : idx \in S}
        V == 0..(n - 1)
        nb(v) == {u \in V : {u, v} \in E}
        grow[k \in 0..n] == IF k = 0 THEN {0} ELSE grow[k - 1] \cup UNION {nb(v) : v \in grow[k - 1]}
    IN  /\ \A v \in V : nb(v) # {}
        /\ \A v \in V : Cardinality(nb(v)) <= 6
        /\ grow[n] = V
        /\ ~\E Q \in SUBSET V : Cardinality(Q) = 4 /\ \A u, v \in Q : u # v => {u, v} \in E

\* S before T in the lexicographic order of their increasing sequences
LexBefore(S, T) ==
    /\ S # T
    /\ LET diff == (S \ T) \cup (T \ S)
       IN  (CHOOSE x \in diff : \A y \in diff : x <= y) \in S

GenerateWritesExactlyTheCandidates ==
    /\ (genPc = "done" /\ genN <= MaxGenN) =>
          /\ Range(genOut) = {S \in SUBSET (0..(genNumEdges(genN) - 1)) :
                                 Cardinality(S) = targetEdges /\ IsCandidate(genN, S)}
          /\ \A k \in 1..(Len(genOut) - 1) : LexBefore(genOut[k], genOut[k + 1])
    /\ (genPc = "done" /\ genN > MaxGenN) =>
          genOut = IF IsCandidate(genN, Range(genFrames)) THEN <<Range(genFrames)>> ELSE <<>>

\* the same for the runs whose edge ids are all below the width of Graph
GenerateWithinWidth ==
    genNumEdges(genN) <= GraphWidth => GenerateWritesExactlyTheCandidates

\* twelve vertices and twelve edges: the subset of the spanning tree with
\* ids < 64 and id 65 written as a graph of eleven edges
SubsetWrittenWithoutItsEdge ==
    /\ genPc = "done"
    /\ genN = 12
    /\ targetEdges = 12
    /\ Len(genOut) = 1
    /\ Cardinality(genOut[1]) = 11

(***************************************************************************)
(* C17: buildSpiral(n) returns a spiral with 12, 14, 16, 31, 36 and 40     *)
(* edges for n = 7, 8, 9, 15, 17 and 19, as tabulated in the README's      *)
(* adjacency-count table (OEIS A047932).                                   *)
(***************************************************************************)
\* the column "edges" of the README's table
readmeEdges == (7 :> 12) @@ (8 :> 14) @@ (9 :> 16) @@ (15 :> 31) @@ (17 :> 36) @@ (19 :> 40)

A047932(n) == 3 * n - (CHOOSE k \in 0..(4 * n) : k * k >= 12 * n - 3 /\ (k = 0 \/ (k - 1) * (k - 1) < 12 * n - 3))

LatticeDist2(u, v) ==
    LET da == u[1] - v[1]
        db == u[2] - v[2]
    IN  da * da + da * db + db * db

UnitPairs(V) == {q \in V \X V : VertexLess(q[1], q[2]) /\ LatticeDist2(q[1], q[2]) = 1}

ContactGraphIsPenny ==
    polyPc = "layer" =>
        \A x \in MapValues(current) :
            /\ \A e \in edgeSet(x) : LatticeDist2(e[1], e[2]) = 1
            /\ UnitPairs(vertexSet(x)) \subseteq edgeSet(x)

\* the edges read from a graph6 line, as pairs i < j of indices
LineEdges(line) ==
    LET nv == line[1] - 63
    IN  {q \in (0..(nv - 1)) \X (0..(nv - 1)) :
            /\ q[1] < q[2]
            /\ LET k == (q[2] * (q[2] - 1)) \div 2 + q[1]
               IN  ((line[k \div 6 + 2] - 63) \div (2 ^ (5 - (k % 6)))) % 2 = 1}

\* the five triangles around a point are written as a graph without the
\* edge between the two ends of the rim, which are at unit distance
FanWrittenWithoutRimEdge ==
    /\ polyPc = "done"
    /\ maxTri = 5
    /\ \E i \in DOMAIN g6File :
          LET verts == sortVertices(vertexSet(allMatches[i]))
          IN  \E a, b \in DOMAIN verts :
                 /\ a < b
                 /\ LatticeDist2(verts[a], verts[b]) = 1
                 /\ <<a - 1, b - 1>> \notin LineEdges(g6File[i])

(***************************************************************************)
(* C19: the graph6 file written by the polyiamond enumerator for a target  *)
(* (vertex count, edge count) and a triangle range contains exactly one    *)
(* graph per isomorphism class of the matching contact graphs: no two      *)
(* output lines encode isomorphic graphs.                                  *)
(***************************************************************************)
LineDegree(line, v) == Cardinality({e \in LineEdges(line) : v \in {e[1], e[2]}})

\* the bijections from A to B, as functions
Bijections(A, B) ==
    IF Cardinality(A) # Cardinality(B) THEN {}
    ELSE LET from == SomeOrder(A)
         IN  {[v \in A |-> to[CHOOSE i \in DOMAIN from : from[i] = v]] : to \in PermSeqs(B)}

\* the bijections between the vertices of two lines that keep the degree:
\* built degree by degree
RECURSIVE DegreeMaps(_, _, _)
DegreeMaps(lineA, lineB, d) ==
    LET nv == lineA[1] - 63
        classA == {v \in 0..(nv - 1) : LineDegree(lineA, v) = d}
        classB == {v \in 0..(nv - 1) : LineDegree(lineB, v) = d}
    IN  IF d < 0 THEN {<<>>}
        ELSE {lower @@ f : lower \in DegreeMaps(lineA, lineB, d - 1), f \in Bijections(classA, classB)}

LinesIsomorphic(lineA, lineB) ==
    /\ lineA[1] = lineB[1]
    /\ \/ lineA = lineB
       \/ \E f \in DegreeMaps(lineA, lineB, lineA[1] - 63) :
             {IF f[e[1]] < f[e[2]] THEN <<f[e[1]], f[e[2]]>> ELSE <<f[e[2]], f[e[1]]>> :
                e \in LineEdges(lineA)} = LineEdges(lineB)

OneLinePerIsomorphismClass ==
    polyPc = "done" =>
        \A i, j \in DOMAIN g6File : i < j => ~LinesIsomorphic(g6File[i], g6File[j])

\* nine triangles around a missing one and the ten with it: two matches
\* with the same graph6 line
HoleAndFilledWritten ==
    /\ polyPc = "done"
    /\ \E i, j \in DOMAIN g6File :
          /\ Len(allMatches[i]) = 9
          /\ Len(allMatches[j]) = 10
          /\ g6File[i] = g6File[j]

(***************************************************************************)
(* C20: for sizes 1 through 10 enumeratePolyiamonds returns exactly 1, 1,  *)
(* 1, 3, 4, 12, 24, 66, 160 and 448 polyiamonds, pairwise inequivalent     *)
(* under the 12 lattice symmetries and translation, and the returned set   *)
(* is the same for every worker count >= 1.                                *)
(***************************************************************************)
\* the README's table of polyiamond counts, sizes 1 to 10
readmePolyiamonds == <<1, 1, 1, 3, 4, 12, 24, 66, 160, 448>>

\* the 12 symmetries of the lattice as matrices <<a, b, c, d>> acting by
\* <<x, y>> |-> <<a x + b y, c x + d y>>: powers of the rotation by 60
\* degrees, alone and after the reflection in the first axis
MatMul(m1, m2) ==
    <<m1[1] * m2[1] + m1[2] * m2[3], m1[1] * m2[2] + m1[2] * m2[4],
      m1[3] * m2[1] + m1[4] * m2[3], m1[3] * m2[2] + m1[4] * m2[4]>>

RECURSIVE MatPow(_, _)
MatPow(mat, k) == IF k = 0 THEN <<1, 0, 0, 1>> ELSE MatMul(mat, MatPow(mat, k - 1))

Symmetries12 ==
    {MatPow(<<0, -1, 1, 1>>, k) : k \in 0..5}
        \cup {MatMul(MatPow(<<0, -1, 1, 1>>, k), <<1, 1, 0, -1>>) : k \in 0..5}

\* a polyiamond as a set of triangles, each a set of vertices, moved by mat
\* and translated to minimum coordinates 0
ImageOf(poly, mat) ==
    LET moved == {{<<mat[1] * v[1] + mat[2] * v[2], mat[3] * v[1] + mat[4] * v[2]>> :
                      v \in Range(poly[i])} : i \in DOMAIN poly}
        pts == UNION moved
        minA == Min({v[1] : v \in pts})
        minB == Min({v[2] : v \in pts})
    IN  {{<<v[1] - minA, v[2] - minB>> : v \in tri} : tri \in moved}

\* the set one worker alone builds for size k
RECURSIVE OneWorkerLayer(_)
OneWorkerLayer(k) ==
    IF k = 1 THEN {canonicalize(initialPolyiamond)}
    ELSE MapValues(localNext(OneWorkerLayer(k - 1)))

PolyiamondCounts ==
    (polyPc = "layer" /\ polySize - 1 <= Len(readmePolyiamonds)) =>
        LET shapes == MapValues(current)
            forms == {ImageOf(x, <<1, 0, 0, 1>>) : x \in shapes}
        IN  /\ Cardinality(shapes) = readmePolyiamonds[polySize - 1]
            /\ Cardinality(current) = Cardinality(shapes)
            /\ Cardinality(forms) = Cardinality(shapes)
            /\ \A x \in shapes :
                  /\ Len(x) = polySize - 1
                  /\ \A mat \in Symmetries12 :
                        ImageOf(x, mat) \in forms => ImageOf(x, mat) = ImageOf(x, <<1, 0, 0, 1>>)
            /\ workers > 1 => shapes = OneWorkerLayer(polySize - 1)

\* three workers, one tetriamond each, have built the four pentiamonds
PentiamondsByThreeWorkers ==
    /\ polyPc = "layer"
    /\ workers = 3
    /\ polySize = 6
    /\ Cardinality(current) = 4
    /\ Len(chunks) = 3

(***************************************************************************)
(* C21: find_fourth validates every candidate line and skips it, without   *)
(* running the SAT solver on it and without aborting the run, whenever the *)
(* line is malformed: a wrong number of ';'-separated arrangements, an     *)
(* arrangement whose length is not n, a non-numeric entry, an entry        *)
(* outside 0..n-1, or a repeated item.                                     *)
(***************************************************************************)
IsNumber(str) == str # <<>> /\ \A i \in DOMAIN str : IsDigit(str[i])

WellFormedArrangement(str, n) ==
    LET parts == Split(str, ",")
    IN  /\ Len(parts) = n
        /\ \A i \in 1..n : IsNumber(parts[i]) /\ DecimalValue(parts[i]) \in 0..(n - 1)
        /\ \A i, j \in 1..n : i # j => DecimalValue(parts[i]) # DecimalValue(parts[j])

WellFormedLine(line, n) ==
    LET parts == Split(line, ";")
    IN  Len(parts) = 2 /\ \A i \in 1..2 : WellFormedArrangement(parts[i], n)

MalformedLinesAreSkipped ==
    /\ ffMain # "panic"
    /\ \A w \in DOMAIN fw :
          fw[w].pc \in {"send", "store"} => WellFormedLine(fw[w].cand.line, FindFourthN)

\* the part of the validation the worker does: a line with a wrong number of
\* arrangements or an arrangement of the wrong length is never solved
WrongShapeLinesAreSkipped ==
    \A w \in DOMAIN fw :
        fw[w].pc \in {"send", "store"} =>
            LET parts == Split(fw[w].cand.line, ";")
            IN  /\ Len(parts) = 2
                /\ \A i \in 1..2 : Len(Split(parts[i], ",")) = FindFourthN

\* the collector has counted the result of a candidate whose second
\* arrangement holds an entry that is not a number
NonNumericLineSolved ==
    /\ Len(allLines) = 1
    /\ \E i \in DOMAIN allLines[1] : allLines[1][i] = "x"
    /\ checkedCount = 1
    /\ ffMain = "done"

\* the run was aborted by the index panic of a candidate with an entry n
OutOfRangeLineAborts ==
    /\ ffMain = "panic"
    /\ \E w \in DOMAIN fw : fw[w].pc = "panic" /\ ~WellFormedLine(fw[w].cand.line, FindFourthN)

(***************************************************************************)
(* C22: when reading graph6 input, a line contributes a graph to the pool  *)
(* only if it is well formed and its encoded vertex count equals the run's *)
(* n; a line with a different n, a truncated line, or a line with a        *)
(* character outside the graph6 range is skipped and the remaining lines   *)
(* are still processed.                                                    *)
(***************************************************************************)
WellFormedG6(n, line) ==
    /\ Len(line) = 1 + ((n * (n - 1)) \div 2 + 5) \div 6
    /\ line[1] = n + 63
    /\ \A i \in 2..Len(line) : line[i] \in 63..126

\* the graphs of the well-formed lines among the first k lines, in order
RECURSIVE WellFormedGraphs(_, _, _)
WellFormedGraphs(n, lines, k) ==
    IF k = 0 THEN <<>>
    ELSE WellFormedGraphs(n, lines, k - 1) \o
         (IF WellFormedG6(n, lines[k]) /\ parseGraph6(n, lines[k]) # {}
          THEN <<parseGraph6(n, lines[k])>> ELSE <<>>)

OnlyWellFormedLinesContribute ==
    fmPc = "read" => fmAllGraphs = WellFormedGraphs(fmN, fmLines, fmRead - 1)

\* the part the reader does: lines of another vertex count contribute
\* nothing, and every line is read whatever the lines before it were
OtherNLinesAreSkipped ==
    fmPc = "read" =>
        /\ Len(fmAllGraphs) <= Cardinality({i \in 1..(fmRead - 1) : fmLines[i][1] = fmN + 63})
        /\ fmRead <= Len(fmLines) => ENABLED FmReadLine

\* a line cut after its first data character has been read and its graph
\* is in the pool
TruncatedLineContributes ==
    /\ fmLines = <<TruncatedLine>>
    /\ fmRead = 2
    /\ fmAllGraphs = <<fmGraphOf(ReadN, {<<0, 1>>, <<0, 2>>, <<1, 2>>})>>

(***************************************************************************)
(* C23: when the external shortg helper cannot be run, the canonical-      *)
(* labeling pipeline still completes and emits one representative per      *)
(* isomorphism class of the generated candidates, by falling back to the   *)
(* in-process canonicalizer.                                               *)
(***************************************************************************)
PlCandidates(n) ==
    {gr \in SUBSET (0..(plNumEdges(n) - 1)) :
        /\ Cardinality(gr) \in (n - 1)..(3 * n - 6)
        /\ \A v \in 0..(n - 1) : \E e \in VertexPairs(n) : v \in {e[1], e[2]} /\ fmEdgeIndex(n, e[1], e[2]) \in gr
        /\ isCandidate(n, gr, Cardinality(gr))}

OneRepresentativePerClass(n, file) ==
    /\ \A gr \in PlCandidates(n) :
          /\ file.exists
          /\ Cardinality({i \in DOMAIN file.lines :
                             g6Isomorphic(n, file.lines[i], toGraph6(n, gr))}) = 1
    /\ \A i \in DOMAIN file.lines :
          \E gr \in PlCandidates(n) : g6Isomorphic(n, file.lines[i], toGraph6(n, gr))

PipelineSurvivesMissingShortg ==
    (plPc = "done" /\ ~shortgOk) => OneRepresentativePerClass(plN, plFinal)

\* with shortg at hand the pipeline does emit one line per class
PipelineWithShortg ==
    (plPc = "done" /\ shortgOk) => OneRepresentativePerClass(plN, plFinal)

\* shortg could not be run: the pipeline ended after several batches of
\* candidates on 4 vertices and there is no output file
CandidatesLostWithoutShortg ==
    /\ plPc = "done" /\ ~shortgOk
    /\ plN = MaxPipeN
    /\ Len(batchFiles) > 1
    /\ ~plFinal.exists

(***************************************************************************)
(* C24: whenever isPennyGraph accepts a graph, the point set of the        *)
(* accepting restart has every edge at distance within 0.001 of 1 and      *)
(* every non-edge at distance greater than 1.001.                          *)
(***************************************************************************)
PennyAcceptedIsEmbedded ==
    (pnPc = "done" /\ pnResult) =>
        \A i, j \in 0..(pnN - 1) :
            i < j =>
                LET d2 == (pnPos[i][1] - pnPos[j][1]) ^ 2 + (pnPos[i][2] - pnPos[j][2]) ^ 2
                IN  IF fmEdgeIndex(pnN, i, j) \in pnG
                    THEN 999 * 999 <= d2 /\ d2 <= 1001 * 1001
                    ELSE d2 > 1001 * 1001

\* a path on three vertices was accepted at a later restart, with an edge
\* at distance exactly 1.001
PathAcceptedAtLaterRestart ==
    /\ pnPc = "done" /\ pnResult
    /\ pnN = 3 /\ Cardinality(pnG) = 2
    /\ pnAttempt > 0
    /\ \E e \in pnEdges(pnN, pnG) : dist2(pnPos, e) = 1001 * 1001

(***************************************************************************)
(* C25: for each shape pair, when no witness is found, the workers of      *)
(* solver_13_3 (one per value of arr1[0]) together visit every permutation *)
(* a1 on shape1 whose pair-set is disjoint from a0's exactly once, so the   *)
(* summed arr1 count equals the number of such permutations and no such    *)
(* permutation is skipped or visited by two workers.                       *)
(***************************************************************************)
DisjointArr1(f, sh0, sh1) ==
    {a \in PermSeqs(0..(f.n - 1)) :
        InducedPairs(f.n, f.graphs[sh1 + 1], a) \cap
        InducedPairs(f.n, f.graphs[sh0 + 1], Identity(f.n)) = {}}

RECURSIVE SumCounts(_, _)
SumCounts(ws, k) == IF k < 0 THEN 0 ELSE ws[k].count + SumCounts(ws, k - 1)

WorkersVisitEachArr1Once ==
    (main13 = "wait" /\ ~found13 /\ \A fi \in DOMAIN w13 : w13[fi].pc = "done") =>
        LET seen == [fi \in DOMAIN w13 |-> visitedArr1(fam, shape0, shape1, fi)]
        IN  /\ SumCounts(w13, fam.n - 1) = Cardinality(DisjointArr1(fam, shape0, shape1))
            /\ \A fi \in DOMAIN w13 :
                  /\ w13[fi].count = Len(seen[fi])
                  /\ \A i, j \in DOMAIN seen[fi] : i # j => seen[fi][i] # seen[fi][j]
                  /\ \A i \in DOMAIN seen[fi] : seen[fi][i][1] = fi
            /\ UNION {Range(seen[fi]) : fi \in DOMAIN w13} = DisjointArr1(fam, shape0, shape1)

\* the six workers of a shape pair on six items have ended without a
\* witness, and some of them counted arrangements
SixWorkersCounted ==
    /\ main13 = "wait" /\ ~found13
    /\ fam.n = 6
    /\ \A fi \in DOMAIN w13 : w13[fi].pc = "done"
    /\ \E fi \in DOMAIN w13 : w13[fi].count > 0
    /\ \E a \in PermSeqs(0..5) : a \notin DisjointArr1(fam, shape0, shape1)

(***************************************************************************)
(* C26: at the last level of the n=20 solver, filling the special slot     *)
(* first with only the items that have at most specialSlotDegree uncovered *)
(* partners, together with the doomed-pair check, loses no completion: the *)
(* level accepts only an arrangement that covers every pair still open     *)
(* within its overlap cap; when its enumerate(0) has tried all its         *)
(* candidates without acceptance and found is still 0, no permutation on   *)
(* the spiral covers every open pair within the cap; and every such        *)
(* permutation has a candidate of the special slot in that slot.           *)
(***************************************************************************)
\* covered as the innermost solve call of the worker got it
EntryCovered(wr) ==
    IF Len(wr.frames) = 1 THEN Covered0(s)
    ELSE wr.frames[Len(wr.frames) - 1].coveredSet

\* the permutations that cover what covered leaves open with overlap <= cap
Completions(sv, covered, cap) ==
    {a \in Perms(sv.n) :
        /\ covered \cup InducedPairs(sv.n, sv.edges, a) = AllPairs(sv.n)
        /\ OverlapOf(sv.n, sv.edges, a, covered) <= cap}

Completable(sv, covered, cap) == Completions(sv, covered, cap) # {}

AtLastLevel(w) ==
    /\ s.variant = "n20"
    /\ wk[w].frames # <<>>
    /\ Len(wk[w].frames) = s.k - 1

LastLevelExhausted(w) ==
    /\ AtLastLevel(w)
    /\ wk[w].pc = "ret"
    /\ Len(TopFrame(wk[w]).calls) = 1
    /\ found = 0

\* the candidates of the special slot have just been chosen
LastLevelChoosesSpecial(w) ==
    /\ AtLastLevel(w)
    /\ wk[w].pc = "loop"
    /\ Len(TopFrame(wk[w]).calls) = 1
    /\ TopCall(wk[w]).idx = 1

LastLevelAccepts(w) ==
    /\ AtLastLevel(w)
    /\ wk[w].pc = "lock"

LastLevelLosesNoCompletion ==
    \A w \in DOMAIN wk :
        /\ LastLevelAccepts(w) =>
              LET f == TopFrame(wk[w])
                  entry == EntryCovered(wk[w])
              IN  /\ f.arr \in Perms(s.n)
                  /\ entry \cup InducedPairs(s.n, s.edges, f.arr) = AllPairs(s.n)
                  /\ OverlapOf(s.n, s.edges, f.arr, entry) <= f.maxOverlap
        /\ LastLevelExhausted(w) =>
              ~Completable(s, TopFrame(wk[w]).coveredSet, TopFrame(wk[w]).maxOverlap)
        /\ LastLevelChoosesSpecial(w) =>
              \A a \in Completions(s, TopFrame(wk[w]).coveredSet,
                                    TopFrame(wk[w]).maxOverlap) :
                  a[specialSlot(s.n) + 1] \in Range(TopCall(wk[w]).cands)

\* the last level accepts an arrangement whose special slot holds an item
\* that had exactly specialSlotDegree uncovered partners
SpecialSlotItemAccepted ==
    \E w \in DOMAIN wk :
        /\ LastLevelAccepts(w)
        /\ s.n >= 4
        /\ countNeededPartners(s, TopFrame(wk[w]).arr[s.n], EntryCovered(wk[w]))
               = specialSlotDegree

\* the last level gives up although every item was a candidate for the
\* special slot
LastLevelGivesUp ==
    \E w \in DOMAIN wk :
        /\ LastLevelExhausted(w)
        /\ s.n >= 4
        /\ \E item \in 0..(s.n - 1) :
              countNeededPartners(s, item, TopFrame(wk[w]).coveredSet) <= specialSlotDegree

(***************************************************************************)
(* C27: whenever a call of enumerate returns, after trying all its items   *)
(* or after it has seen the found flag, the worker's used set, coveredSet  *)
(* and list of placed items (usedItems; filledSlots in the n=20 solver)    *)
(* are what they were when the call was entered, and in the n=20 solver    *)
(* arr is too: every slot filled during the call is -1 again.              *)
(***************************************************************************)
\* the innermost enumerate call of worker w is returning
EnumerateReturns(w) ==
    /\ wk[w].frames # <<>>
    /\ wk[w].pc = "ret"

EnumerateLeavesNoResidue ==
    \A w \in DOMAIN wk :
        EnumerateReturns(w) =>
            LET f == TopFrame(wk[w])
                c == TopCall(wk[w])
            IN  /\ f.used = c.entry.used
                /\ f.coveredSet = c.entry.coveredSet
                /\ f.usedItems = c.entry.usedItems
                /\ f.filledSlots = c.entry.filledSlots
                /\ s.variant = "n20" => f.arr = c.entry.arr

\* a call below slot 0 leaves its loop over the items because another worker
\* has set found, with items placed and pairs covered on the way to it
CancelledCallReturns ==
    \E w \in DOMAIN wk :
        /\ EnumerateReturns(w)
        /\ found # 0
        /\ s.numWorkers = 2
        /\ Len(TopFrame(wk[w]).calls) >= 2
        /\ TopCall(wk[w]).idx \in 1..Len(TopCall(wk[w]).cands)
        /\ TopFrame(wk[w]).coveredSet # EntryCovered(wk[w])

\* a call returns after its loop has tried items that were placed and taken
\* back
ExhaustedCallReturns ==
    \E w \in DOMAIN wk :
        /\ EnumerateReturns(w)
        /\ found = 0
        /\ Len(TopFrame(wk[w]).calls) >= 2
        /\ TopCall(wk[w]).idx > Len(TopCall(wk[w]).cands)
        /\ TopCall(wk[w]).cands # <<>>
        /\ TopFrame(wk[w]).coveredSet # EntryCovered(wk[w])

(***************************************************************************)
(* C28: for every n >= 1, permutations(n) returns exactly n! arrays, each  *)
(* a permutation of 0..n-1 and no two equal, so that allPerms holds every  *)
(* relabeling of the vertices and the subgraph test of filter_maximal      *)
(* answers as a search over all relabelings does.                          *)
(***************************************************************************)
MaxPermN == 6

\* permutations(n) is a list of n! different permutations of 0..n-1
PermutationsComplete(n) ==
    LET perms == permutations(n)
    IN  /\ Len(perms) = Factorial(n)
        /\ \A i \in DOMAIN perms : IsPermutation(perms[i], n)
        /\ Cardinality(Range(perms)) = Len(perms)

PermutationsCompleteUpTo == \A n \in 1..MaxPermN : PermutationsComplete(n)

PermutationsAreAllRelabelings ==
    fmPc # "idle" =>
        /\ PermutationsCompleteUpTo
        /\ PermutationsComplete(fmN)
        /\ allPerms(fmN) = Perms(fmN)
        /\ \A i \in DOMAIN fmAllGraphs : \A k \in DOMAIN maximal :
              isIsomorphicSubgraphOf(fmN, fmAllGraphs[i], maximal[k])
                  <=> SubIso(fmN, fmAllGraphs[i], maximal[k])

\* the filter has dropped a graph on MaxFmN vertices that only arrays among
\* the last three of permutations(MaxFmN) map into the graph kept before it
LatePermutationNeeded ==
    /\ fmPc = "filter"
    /\ fmN = MaxFmN
    /\ fmI = 3
    /\ Len(maximal) = 1
    /\ LET perms == permutations(fmN)
           fits(q) == fmRelabeled(fmN, fmAllGraphs[2], perms[q]) \subseteq maximal[1]
       IN  /\ \E q \in DOMAIN perms : fits(q)
           /\ \A q \in 1..(Len(perms) - 3) : ~fits(q)

(***************************************************************************)
(* C29: under fair scheduling every run of find_fourth and of solver_13_3  *)
(* terminates, with one or more workers and whether or not a witness       *)
(* exists: main reaches its end with every worker goroutine and the        *)
(* collector ended, so that none is left blocked on work, results,         *)
(* resultChan or countChan; and when solver_13_3's found flag is set at    *)
(* the report, resultChan holds exactly one Solution for main to receive.  *)
(***************************************************************************)
FFTerminated ==
    /\ ffMain = "done"
    /\ done
    /\ \A w \in DOMAIN fw : fw[w].pc = "done"
    /\ work = <<>> /\ results = <<>>

S13Terminated ==
    /\ main13 \in {"found", "none"}
    /\ \A fi \in DOMAIN w13 : w13[fi].pc = "done"
    /\ resultChan = <<>> /\ countChan = <<>>

OneSolutionAtReport ==
    (main13 = "report" /\ found13) => Len(resultChan) = 1

EveryRunTerminates ==
    /\ <>[](FFTerminated \/ S13Terminated)
    /\ []OneSolutionAtReport

\* solver_13_3 has ended without a witness, every pair of shapes tried
NoWitnessRunEnded ==
    /\ S13Terminated
    /\ main13 = "none"
    /\ shape0 = NumShapes

\* solver_13_3 has received the Solution of a later pair of shapes
LaterPairRunEnded ==
    /\ S13Terminated
    /\ main13 = "found"
    /\ shape0 + shape1 > 0

\* solver_13_3 has received the Solution although a second worker had a
\* witness of its own and lost the CompareAndSwap
LoserOfCasEnded ==
    /\ S13Terminated
    /\ main13 = "found"
    /\ Cardinality({fi \in DOMAIN w13 : w13[fi].sol.ok}) >= 2

\* find_fourth has ended after main found work full and two workers ran
FFEndedAfterFullWork ==
    /\ FFTerminated
    /\ chanCaps.work = ScaledCap
    /\ Len(allLines) = MaxLines /\ samples = 0
    /\ Len(fw) = MaxFFWorkers
    /\ checkedCount >= 2

(***************************************************************************)
(* C30: in the spiral of 20 slots that the n=20 solver builds, slot 19 has *)
(* degree exactly 2, its neighbours are slots 7 and 18, and every other    *)
(* slot has degree greater than 2: slot 19 is the one slot of lowest       *)
(* degree, as the constants specialSlot and specialSlotDegree assume.      *)
(***************************************************************************)
\* N of the n=20 solver
N20 == 20

\* the slots joined to slot by an edge of the list
SlotNeighbours(edges, slot) ==
    {e[2] : e \in {x \in Range(edges) : x[1] = slot}} \cup
    {e[1] : e \in {x \in Range(edges) : x[2] = slot}}

Slot19IsTheLowestDegreeSlot ==
    (spN = N20 /\ node = spN) =>
        /\ specialSlot(spN) = 19
        /\ SlotNeighbours(spEdges, specialSlot(spN)) = {7, 18}
        /\ Cardinality(SlotNeighbours(spEdges, specialSlot(spN))) = specialSlotDegree
        /\ \A slot \in 0..(spN - 1) :
              slot # specialSlot(spN) =>
                  Cardinality(SlotNeighbours(spEdges, slot)) > specialSlotDegree

\* buildSpiral has placed the twentieth node and returned its 44 edges
Spiral20Built ==
    /\ spN = N20 /\ node = spN
    /\ Len(positions) = N20
    /\ Len(spEdges) = 44

====
